---- MODULE Spec2Model ----
(***************************************************************************)
(* Knowledge-graph normalization pipeline: identifier normalizer, format   *)
(* normalizers, structural validator and multi-graph diff engine.          *)
(*                                                                         *)
(* A JavaScript string is a sequence of one-character strings, so that     *)
(* concatenation, sorting and character classes are computed, not assumed. *)
(* A JavaScript object used as a map (Record<string, T>) and a Map are     *)
(* sequences of entries [k |-> key, v |-> value] in insertion order.       *)
(***************************************************************************)
EXTENDS Integers, Sequences, FiniteSets, TLC

VARIABLES
    phase,      \* which entry point the run exercises, and whether it has returned
    vGraph,     \* argument of validateCanonicalGraph
    vResult,    \* its Result
    dGraphs,    \* argument of computeDiff: a list of {label, graph}
    dResult,    \* its outcome: a DiffResult, or the exception it raised
    nFormat,    \* declared format of the document given to normalize
    nDoc,       \* the document (parsed JSON, or text that does not parse)
    nResult,    \* outcome of normalize: a Result, or the exception it raised
    idArg,      \* argument of normalizeId / isValidId
    idResult,   \* what they return for it, and for the normalized id again
    logicArg,   \* argument of analyzeLogic
    logicResult,\* its {inputs, outputs}
    calls,      \* the normalize calls one process has made so far, with their outcomes
    objectSource,\* Object.source, the property those calls can leave on the global Object
    state,      \* the AppState held by useAppState
    inputCounter,\* the module-level counter behind generateInputId
    renders     \* the renderGraphs calls that are suspended at an await

validateVars == <<vGraph, vResult>>
diffVars == <<dGraphs, dResult>>
normalizeVars == <<nFormat, nDoc, nResult>>
idVars == <<idArg, idResult>>
logicVars == <<logicArg, logicResult>>
callVars == <<calls, objectSource>>
appVars == <<state, inputCounter, renders>>

vars == <<phase, validateVars, diffVars, normalizeVars, idVars, logicVars, callVars, appVars>>

(***************************************************************************)
(* Bounds of the model                                                     *)
(***************************************************************************)
MaxRefs == 2        \* longest inputs / outputs list of a rule given to the validator
MaxSources == 3     \* most labeled graphs given to computeDiff
MaxEntries == 2     \* most rules, blocks or parameters of a document given to normalize
MaxIdLen == 4       \* longest string given to normalizeId
MaxCalls == 3       \* most normalize calls of one process
MaxLogicLen == 5    \* longest enumerated string given to analyzeLogic
MaxInputCounter == 3 \* addInput is followed while inputCounter is below this

(***************************************************************************)
(* Strings                                                                 *)
(***************************************************************************)
Undefined == <<"undefined">>     \* JavaScript undefined / an absent field

\* The characters of the model in code-unit order (the order of Array.prototype.sort):
\* printable ASCII without the quote, backslash and backtick, and one non-ASCII letter.
CharOrder ==
    <<" ", "!", "#", "$", "%", "&", "'", "(", ")", "*", "+", ",", "-", ".", "/", "0",
      "1", "2", "3", "4", "5", "6", "7", "8", "9", ":", ";", "<", "=", ">", "?", "@",
      "A", "B", "C", "D", "E", "F", "G", "H", "I", "J", "K", "L", "M", "N", "O", "P",
      "Q", "R", "S", "T", "U", "V", "W", "X", "Y", "Z", "[", "]", "^", "_", "a", "b",
      "c", "d", "e", "f", "g", "h", "i", "j", "k", "l", "m", "n", "o", "p", "q", "r",
      "s", "t", "u", "v", "w", "x", "y", "z", "{", "|", "}", "~", "é">>

CharCode(c) == CHOOSE i \in 1..Len(CharOrder) : CharOrder[i] = c

RECURSIVE StrLess(_, _)
StrLess(s, t) ==
    IF t = <<>> THEN FALSE
    ELSE IF s = <<>> THEN TRUE
    ELSE IF Head(s) = Head(t) THEN StrLess(Tail(s), Tail(t))
    ELSE CharCode(Head(s)) < CharCode(Head(t))

SeqToSet(s) == {s[i] : i \in 1..Len(s)}

RECURSIVE Concat(_)
Concat(ss) == IF ss = <<>> THEN <<>> ELSE Head(ss) \o Concat(Tail(ss))

RECURSIVE Join(_, _)
Join(ss, sep) ==
    IF ss = <<>> THEN <<>>
    ELSE IF Len(ss) = 1 THEN ss[1]
    ELSE ss[1] \o sep \o Join(Tail(ss), sep)

(***************************************************************************)
(* Objects and Maps: entries in insertion order                            *)
(***************************************************************************)
Keys(rec) == [i \in 1..Len(rec) |-> rec[i].k]
Values(rec) == [i \in 1..Len(rec) |-> rec[i].v]
Has(rec, key) == \E i \in 1..Len(rec) : rec[i].k = key
Get(rec, key) == rec[CHOOSE i \in 1..Len(rec) : rec[i].k = key].v
Put(rec, key, val) ==
    IF Has(rec, key)
    THEN [i \in 1..Len(rec) |-> IF rec[i].k = key THEN [k |-> key, v |-> val] ELSE rec[i]]
    ELSE Append(rec, [k |-> key, v |-> val])

\* Object.prototype members whose names survive normalizeId unchanged: obj[key]
\* is truthy for them on every plain object, whether or not key is an own property.
ObjectPrototypeKeys == {<<"c","o","n","s","t","r","u","c","t","o","r">>}

\* if (obj[key]) for an object whose own values are objects (always truthy)
Truthy(rec, key) == Has(rec, key) \/ key \in ObjectPrototypeKeys

(***************************************************************************)
(* Results and errors                                                      *)
(***************************************************************************)
ok(value) == [success |-> TRUE, value |-> value, errors |-> <<>>]
err(errors) == [success |-> FALSE, value |-> Undefined, errors |-> errors]

\* the outcome of a call: a returned value or a raised exception
Returned(value) == [kind |-> "return", value |-> value]
Thrown(message) == [kind |-> "throw", message |-> message]
NoOutcome == [kind |-> "none"]

createError(errorType, parameter, ruleId, existingRuleId, cycle) ==
    [errorType |-> errorType, parameter |-> parameter, ruleId |-> ruleId,
     existingRuleId |-> existingRuleId, cycle |-> cycle]

undeclaredParameter(parameter, ruleId) ==
    createError("UNDECLARED_PARAMETER", parameter, ruleId, Undefined, <<>>)
ruleNoOutputs(ruleId) ==
    createError("RULE_NO_OUTPUTS", Undefined, ruleId, Undefined, <<>>)
duplicateOutput(parameter, ruleId, existingRuleId) ==
    createError("DUPLICATE_OUTPUT", parameter, ruleId, existingRuleId, <<>>)
cycleDetected(cycle) ==
    createError("CYCLE_DETECTED", Undefined, Undefined, Undefined, cycle)
\* the message names the rule and the id that is a rule
bipartiteViolation(ruleId, refId) ==
    createError("BIPARTITE_VIOLATION", refId, ruleId, Undefined, <<>>)

ErrorsOfType(errors, type) == {i \in 1..Len(errors) : errors[i].errorType = type}

(***************************************************************************)
(* Canonical graph                                                         *)
(***************************************************************************)
CanonicalParameter(id, type, source) == [id |-> id, type |-> type, source |-> source]
CanonicalRule(id, inputs, outputs, logic) ==
    [id |-> id, inputs |-> inputs, outputs |-> outputs, logic |-> logic]
CanonicalGraph(parameters, rules) == [parameters |-> parameters, rules |-> rules]

\* ParameterType: 'number' | 'boolean' | 'string'
NumberType == <<"n","u","m","b","e","r">>
BooleanType == <<"b","o","o","l","e","a","n">>
StringType == <<"s","t","r","i","n","g">>

(***************************************************************************)
(* Validator                                                               *)
(***************************************************************************)
ParamPrefix == <<"p", "a", "r", "a", "m", ":">>
RulePrefix == <<"r", "u", "l", "e", ":">>

\* `param:${id}` and `rule:${id}`
ParamNode(id) == ParamPrefix \o id
RuleNode(id) == RulePrefix \o id

\* adjacency.get(node) || []
AdjGet(adjacency, node) == IF Has(adjacency, node) THEN Get(adjacency, node) ELSE <<>>

\* edges = adjacency.get(from) || []; edges.push(to); adjacency.set(from, edges)
AddEdge(adjacency, from, to) == Put(adjacency, from, Append(AdjGet(adjacency, from), to))

RECURSIVE AddEdgesFrom(_, _, _)
AddEdgesFrom(adjacency, froms, to) ==
    IF froms = <<>> THEN adjacency
    ELSE AddEdgesFrom(AddEdge(adjacency, ParamNode(Head(froms)), to), Tail(froms), to)

RECURSIVE AddEdgesTo(_, _, _)
AddEdgesTo(adjacency, from, tos) ==
    IF tos = <<>> THEN adjacency
    ELSE AddEdgesTo(AddEdge(adjacency, from, ParamNode(Head(tos))), from, Tail(tos))

RECURSIVE AddRuleEdges(_, _)
AddRuleEdges(adjacency, rules) ==
    IF rules = <<>> THEN adjacency
    ELSE LET rule == Head(rules)
             withInputs == AddEdgesFrom(adjacency, rule.inputs, RuleNode(rule.id))
         IN AddRuleEdges(AddEdgesTo(withInputs, RuleNode(rule.id), rule.outputs), Tail(rules))

BuildAdjacency(graph) ==
    LET paramKeys == Keys(graph.parameters)
        ruleKeys == Keys(graph.rules)
        nodes == [i \in 1..Len(paramKeys) |-> [k |-> ParamNode(paramKeys[i]), v |-> <<>>]]
                 \o [i \in 1..Len(ruleKeys) |-> [k |-> RuleNode(ruleKeys[i]), v |-> <<>>]]
    IN AddRuleEdges(nodes, Values(graph.rules))

\* a traversal that takes every visited neighbour for a back edge
OnStackAnyVisited(st, neighbor) == neighbor \in st.visited

\* the back-edge test of dfs: the neighbour is on the recursion stack
OnStack(st, neighbor) == neighbor \in st.recursionStack

RECURSIVE dfs(_, _, _, _), dfsNeighbors(_, _, _, _, _)
dfs(adjacency, nodeId, path, st) ==
    dfsNeighbors(adjacency, nodeId, path, 1,
                 [st EXCEPT !.visited = @ \cup {nodeId},
                            !.recursionStack = @ \cup {nodeId}])

dfsNeighbors(adjacency, nodeId, path, i, st) ==
    LET neighbors == AdjGet(adjacency, nodeId) IN
    IF i > Len(neighbors)
    THEN [found |-> FALSE,
          st |-> [st EXCEPT !.recursionStack = @ \ {nodeId},
                            !.sorted = Append(@, nodeId)]]
    ELSE LET neighbor == neighbors[i] IN
         IF neighbor \notin st.visited
         THEN LET r == dfs(adjacency, neighbor, Append(path, neighbor), st)
              IN IF r.found THEN r
                 ELSE dfsNeighbors(adjacency, nodeId, path, i + 1, r.st)
         ELSE IF OnStack(st, neighbor)
         THEN [found |-> TRUE, st |-> [st EXCEPT !.cyclePath = Append(path, neighbor)]]
         ELSE dfsNeighbors(adjacency, nodeId, path, i + 1, st)

RECURSIVE dfsAll(_, _, _, _)
dfsAll(adjacency, nodeIds, i, st) ==
    IF i > Len(nodeIds) THEN [found |-> FALSE, st |-> st]
    ELSE IF nodeIds[i] \in st.visited THEN dfsAll(adjacency, nodeIds, i + 1, st)
    ELSE LET r == dfs(adjacency, nodeIds[i], <<nodeIds[i]>>, st)
         IN IF r.found THEN r ELSE dfsAll(adjacency, nodeIds, i + 1, r.st)

Reverse(s) == [i \in 1..Len(s) |-> s[Len(s) + 1 - i]]

\* a sort that reports the traversal path without the neighbour that closes it
topologicalSortOpenPath(graph) ==
    LET adjacency == BuildAdjacency(graph)
        r == dfsAll(adjacency, Keys(adjacency), 1,
                    [visited |-> {}, recursionStack |-> {}, sorted |-> <<>>,
                     cyclePath |-> <<>>])
    IN IF r.found
       THEN [sorted |-> <<>>, hasCycle |-> TRUE,
             cyclePath |-> SubSeq(r.st.cyclePath, 1, Len(r.st.cyclePath) - 1)]
       ELSE [sorted |-> Reverse(r.st.sorted), hasCycle |-> FALSE, cyclePath |-> <<>>]

topologicalSort(graph) ==
    LET adjacency == BuildAdjacency(graph)
        r == dfsAll(adjacency, Keys(adjacency), 1,
                    [visited |-> {}, recursionStack |-> {}, sorted |-> <<>>,
                     cyclePath |-> <<>>])
    IN IF r.found
       THEN [sorted |-> <<>>, hasCycle |-> TRUE, cyclePath |-> r.st.cyclePath]
       ELSE [sorted |-> Reverse(r.st.sorted), hasCycle |-> FALSE, cyclePath |-> <<>>]

\* for (const id of refs) if (graph.rules[id]) errors.push(bipartiteViolation(...))
RECURSIVE bipartiteRefErrors(_, _, _)
bipartiteRefErrors(graph, rule, refs) ==
    IF refs = <<>> THEN <<>>
    ELSE (IF Truthy(graph.rules, Head(refs))
          THEN <<bipartiteViolation(rule.id, Head(refs))>> ELSE <<>>)
         \o bipartiteRefErrors(graph, rule, Tail(refs))

RECURSIVE validateBipartiteRules(_, _)
validateBipartiteRules(graph, rules) ==
    IF rules = <<>> THEN <<>>
    ELSE bipartiteRefErrors(graph, Head(rules), Head(rules).inputs)
         \o bipartiteRefErrors(graph, Head(rules), Head(rules).outputs)
         \o validateBipartiteRules(graph, Tail(rules))

validateBipartite(graph) == validateBipartiteRules(graph, Values(graph.rules))

\* for (const id of refs) if (!graph.parameters[id]) errors.push(undeclaredParameter(id, rule.id))
RECURSIVE undeclaredRefErrors(_, _, _)
undeclaredRefErrors(graph, rule, refs) ==
    IF refs = <<>> THEN <<>>
    ELSE (IF ~Truthy(graph.parameters, Head(refs))
          THEN <<undeclaredParameter(Head(refs), rule.id)>> ELSE <<>>)
         \o undeclaredRefErrors(graph, rule, Tail(refs))

RECURSIVE validateReferencesRules(_, _)
validateReferencesRules(graph, rules) ==
    IF rules = <<>> THEN <<>>
    ELSE undeclaredRefErrors(graph, Head(rules), Head(rules).inputs)
         \o undeclaredRefErrors(graph, Head(rules), Head(rules).outputs)
         \o validateReferencesRules(graph, Tail(rules))

validateReferences(graph) == validateReferencesRules(graph, Values(graph.rules))

RECURSIVE validateRuleOutputsRules(_)
validateRuleOutputsRules(rules) ==
    IF rules = <<>> THEN <<>>
    ELSE (IF Len(Head(rules).outputs) = 0 THEN <<ruleNoOutputs(Head(rules).id)>> ELSE <<>>)
         \o validateRuleOutputsRules(Tail(rules))

validateRuleOutputs(graph) == validateRuleOutputsRules(Values(graph.rules))

StartsWith(s, prefix) == Len(s) >= Len(prefix) /\ SubSeq(s, 1, Len(prefix)) = prefix

\* id.replace(/^(param|rule):/, '') on a node key
BareId(node) ==
    IF StartsWith(node, ParamPrefix) THEN SubSeq(node, Len(ParamPrefix) + 1, Len(node))
    ELSE IF StartsWith(node, RulePrefix) THEN SubSeq(node, Len(RulePrefix) + 1, Len(node))
    ELSE node

\* a validator that repairs instead of reporting: rules without outputs are dropped
\* and the rest is returned as success
RECURSIVE RulesWithOutputs(_)
RulesWithOutputs(rules) ==
    IF rules = <<>> THEN <<>>
    ELSE (IF Len(Head(rules).v.outputs) = 0 THEN <<>> ELSE <<Head(rules)>>)
         \o RulesWithOutputs(Tail(rules))

validateRepairing(graph) == ok(CanonicalGraph(graph.parameters, RulesWithOutputs(graph.rules)))

validateCanonicalGraph(graph) ==
    LET ts == topologicalSort(graph)
        errors == validateReferences(graph)
                  \o validateBipartite(graph)
                  \o validateRuleOutputs(graph)
                  \o (IF ts.hasCycle
                      THEN <<cycleDetected([i \in 1..Len(ts.cyclePath) |-> BareId(ts.cyclePath[i])])>>
                      ELSE <<>>)
    IN IF Len(errors) > 0 THEN err(errors) ELSE ok(graph)

(***************************************************************************)
(* Inputs of the validator                                                 *)
(***************************************************************************)
A == <<"a">>
B == <<"b">>
R == <<"r">>
S == <<"s">>

\* sequences over set of length at most n
SeqsUpTo(set, n) == UNION {[1..m -> set] : m \in 0..n}

\* ids a rule may reference and a graph may declare as parameters; the first
\* rule id is also a parameter id, so that the two namespaces can alias
ValidatorRefIds == {A, B}
ValidatorRuleIds == <<A, S>>

\* every subset of ids, listed in code-unit order, as a parameters object
RECURSIVE SortedSeq(_)
SortedSeq(set) ==
    IF set = {} THEN <<>>
    ELSE LET m == CHOOSE x \in set : \A y \in set : x = y \/ StrLess(x, y)
         IN <<m>> \o SortedSeq(set \ {m})

ParamsObject(ids) ==
    LET s == SortedSeq(ids)
    IN [i \in 1..Len(s) |-> [k |-> s[i], v |-> CanonicalParameter(s[i], NumberType, "input")]]

\* an id no graph declares, which names a member of Object.prototype; normalizeFormatA
\* lets a rule keep it as an input
Constructor == <<"c","o","n","s","t","r","u","c","t","o","r">>

\* a rule of the given id, or none; its inputs and outputs lists have at most n entries
ValidatorRuleChoices(id, refs, n) ==
    {<<>>} \cup
    {<<[k |-> id, v |-> CanonicalRule(id, ins, outs, <<>>)]>> :
        ins \in SeqsUpTo(refs, n), outs \in SeqsUpTo(refs, n)}

ValidatorGraphs ==
    {CanonicalGraph(ParamsObject(ps), r1 \o r2) :
        ps \in SUBSET ValidatorRefIds,
        r1 \in ValidatorRuleChoices(ValidatorRuleIds[1], ValidatorRefIds, MaxRefs),
        r2 \in ValidatorRuleChoices(ValidatorRuleIds[2], ValidatorRefIds \cup {Constructor}, 1)}

NoGraph == CanonicalGraph(<<>>, <<>>)
NoResult == [success |-> FALSE, value |-> Undefined, errors |-> <<>>]

(***************************************************************************)
(* Specification of the validator entry point                              *)
(***************************************************************************)
(***************************************************************************)
(* The application state of useAppState.  An input id llm_n and its label  *)
(* LLM n are the number n; the content of an editor tab is kept by what    *)
(* normalize and validateCanonicalGraph make of it under the selected      *)
(* format: "valid", "invalid" (a failure Result) or "throws" (normalize    *)
(* raises).  Which tab is selected (activeInputId, activeGraphTab), the   *)
(* format, the help flag, the error lists shown in the tabs and the        *)
(* rendered images are left out.                                           *)
(***************************************************************************)
LLMInput(id, content) == [id |-> id, content |-> content]
GraphResult(id, isValid) == [id |-> id, isValid |-> isValid]

InitialInputCounter == 2

InitialAppState ==
    [inputs |-> <<LLMInput(1, "valid"), LLMInput(2, "valid")>>,
     graphs |-> <<GraphResult(1, FALSE), GraphResult(2, FALSE)>>,
     diffAvailable |-> FALSE,
     isRendering |-> FALSE]

\* the entry points a run does not exercise stay as they are before any call
Idle(exercised) ==
    /\ IF exercised = "validate" THEN TRUE ELSE vGraph = NoGraph /\ vResult = NoResult
    /\ IF exercised = "diff" THEN TRUE ELSE dGraphs = <<>> /\ dResult = NoOutcome
    /\ IF exercised = "normalize" THEN TRUE
       ELSE nFormat = "A" /\ nDoc = Undefined /\ nResult = NoOutcome
    /\ IF exercised = "normalizeId" THEN TRUE ELSE idArg = <<>> /\ idResult = NoOutcome
    /\ IF exercised = "analyzeLogic" THEN TRUE ELSE logicArg = <<>> /\ logicResult = NoOutcome
    /\ IF exercised = "calls" THEN TRUE ELSE calls = <<>> /\ objectSource = "undefined"
    /\ IF exercised = "app" THEN TRUE
       ELSE state = InitialAppState /\ inputCounter = InitialInputCounter /\ renders = <<>>

Untouched(exercised) ==
    /\ IF exercised = "validate" THEN TRUE ELSE UNCHANGED validateVars
    /\ IF exercised = "diff" THEN TRUE ELSE UNCHANGED diffVars
    /\ IF exercised = "normalize" THEN TRUE ELSE UNCHANGED normalizeVars
    /\ IF exercised = "normalizeId" THEN TRUE ELSE UNCHANGED idVars
    /\ IF exercised = "analyzeLogic" THEN TRUE ELSE UNCHANGED logicVars
    /\ IF exercised = "calls" THEN TRUE ELSE UNCHANGED callVars
    /\ IF exercised = "app" THEN TRUE ELSE UNCHANGED appVars

InitValidate ==
    /\ phase = "validate"
    /\ vGraph \in ValidatorGraphs
    /\ vResult = NoResult
    /\ Idle("validate")

Validate ==
    /\ phase = "validate"
    /\ vResult' = validateCanonicalGraph(vGraph)
    /\ phase' = "validated"
    /\ UNCHANGED vGraph
    /\ Untouched("validate")

NextValidate == Validate

SpecValidate == InitValidate /\ [][NextValidate]_vars

(***************************************************************************)
(* Character classes and string helpers of the regular expressions         *)
(***************************************************************************)
LowerChars == {"a","b","c","d","e","f","g","h","i","j","k","l","m","n","o","p","q","r",
               "s","t","u","v","w","x","y","z"}
UpperChars == {"A","B","C","D","E","F","G","H","I","J","K","L","M","N","O","P","Q","R",
               "S","T","U","V","W","X","Y","Z"}
DigitChars == {"0","1","2","3","4","5","6","7","8","9"}

WordChars == LowerChars \cup UpperChars \cup DigitChars \cup {"_"}

RECURSIVE FilterChars(_, _)
FilterChars(str, keep) ==
    IF str = <<>> THEN <<>>
    ELSE (IF Head(str) \in keep THEN <<Head(str)>> ELSE <<>>) \o FilterChars(Tail(str), keep)

\* str.replace(/_+/g, '_')
RECURSIVE CollapseUnderscores(_)
CollapseUnderscores(str) ==
    IF Len(str) < 2 THEN str
    ELSE IF str[1] = "_" /\ str[2] = "_" THEN CollapseUnderscores(Tail(str))
    ELSE <<str[1]>> \o CollapseUnderscores(Tail(str))

Digits == <<"0","1","2","3","4","5","6","7","8","9">>

\* String(n) for a non-negative integer
RECURSIVE ToDecimal(_)
ToDecimal(n) == IF n < 10 THEN <<Digits[n + 1]>> ELSE ToDecimal(n \div 10) \o <<Digits[(n % 10) + 1]>>

\* Array.prototype.sort() without a comparator, on strings
RECURSIVE InsertSorted(_, _)
InsertSorted(sorted, x) ==
    IF sorted = <<>> THEN <<x>>
    ELSE IF StrLess(x, Head(sorted)) THEN <<x>> \o sorted
    ELSE <<Head(sorted)>> \o InsertSorted(Tail(sorted), x)

RECURSIVE Sort(_)
Sort(strs) == IF strs = <<>> THEN <<>> ELSE InsertSorted(Sort(SubSeq(strs, 1, Len(strs) - 1)), strs[Len(strs)])

\* new Set(...).add(x) / [...set]: insertion order, no duplicates
SetAdd(set, x) == IF x \in SeqToSet(set) THEN set ELSE Append(set, x)

(***************************************************************************)
(* Diff engine                                                             *)
(***************************************************************************)
SanitizeMaxLen == 50

\* a status rule that never answers "partial"
computeStatusNoPartial(presence) ==
    IF Len(presence.presentIn) = presence.totalSources THEN "common" ELSE "unique"

computeStatus(presence) ==
    IF Len(presence.presentIn) = presence.totalSources THEN "common"
    ELSE IF Len(presence.presentIn) = 1 THEN "unique"
    ELSE "partial"

Bar == <<"|">>
Comma == <<",">>

ruleKey(rule) ==
    LET sortedInputs == Join(Sort(rule.inputs), Comma)
        sortedOutputs == Join(Sort(rule.outputs), Comma)
    IN rule.id \o Bar \o sortedInputs \o Bar \o sortedOutputs \o Bar \o rule.logic

sanitizeId(str) ==
    LET replaced == [i \in 1..Len(str) |-> IF str[i] \in WordChars THEN str[i] ELSE "_"]
        collapsed == CollapseUnderscores(replaced)
        noLead == IF collapsed # <<>> /\ Head(collapsed) = "_" THEN Tail(collapsed) ELSE collapsed
        noTrail == IF noLead # <<>> /\ noLead[Len(noLead)] = "_"
                   THEN SubSeq(noLead, 1, Len(noLead) - 1) ELSE noLead
    IN SubSeq(noTrail, 1, IF Len(noTrail) < SanitizeMaxLen THEN Len(noTrail) ELSE SanitizeMaxLen)

edgeKey(from, to) == from \o Bar \o to

\* `rule_${ruleCounter}_${sanitizeId(rule.id)}`
RuleVisualId(ruleCounter, rule) ==
    <<"r", "u", "l", "e", "_">> \o ToDecimal(ruleCounter) \o <<"_">> \o sanitizeId(rule.id)

\* existing ? existing.presentIn.add(label) : map.set(key, {...fresh, presentIn: new Set([label])})
Accumulate(map, key, fresh, label) ==
    IF Has(map, key)
    THEN Put(map, key, [Get(map, key) EXCEPT !.presentIn = SetAdd(@, label)])
    ELSE Put(map, key, fresh)

RECURSIVE CollectParameters(_, _, _)
CollectParameters(parameterMap, params, label) ==
    IF params = <<>> THEN parameterMap
    ELSE CollectParameters(
            Accumulate(parameterMap, Head(params).id,
                       [param |-> Head(params), presentIn |-> <<label>>], label),
            Tail(params), label)

RECURSIVE CollectInputEdges(_, _, _, _)
CollectInputEdges(edgeMap, inputs, ruleVisualId, label) ==
    IF inputs = <<>> THEN edgeMap
    ELSE CollectInputEdges(
            Accumulate(edgeMap, edgeKey(Head(inputs), ruleVisualId),
                       [from |-> Head(inputs), to |-> ruleVisualId, presentIn |-> <<label>>],
                       label),
            Tail(inputs), ruleVisualId, label)

RECURSIVE CollectOutputEdges(_, _, _, _)
CollectOutputEdges(edgeMap, outputs, ruleVisualId, label) ==
    IF outputs = <<>> THEN edgeMap
    ELSE CollectOutputEdges(
            Accumulate(edgeMap, edgeKey(ruleVisualId, Head(outputs)),
                       [from |-> ruleVisualId, to |-> Head(outputs), presentIn |-> <<label>>],
                       label),
            Tail(outputs), ruleVisualId, label)

\* the edges of one rule, keyed by its visual id
CollectEdges(edgeMap, rule, ruleVisualId, label) ==
    CollectOutputEdges(CollectInputEdges(edgeMap, rule.inputs, ruleVisualId, label),
                       rule.outputs, ruleVisualId, label)

\* a rule whose key is in ruleMap: presence is accumulated, the visual id is reused
CollectKnownRule(st, rule, label, key) ==
    [parameterMap |-> st.parameterMap,
     ruleMap |-> Accumulate(st.ruleMap, key, Undefined, label),
     edgeMap |-> CollectEdges(st.edgeMap, rule, Get(st.ruleMap, key).visualId, label),
     ruleCounter |-> st.ruleCounter]

\* a rule whose key is new: ruleCounter++ and a fresh visual id
CollectNewRule(st, rule, label, key, ruleVisualId) ==
    [parameterMap |-> st.parameterMap,
     ruleMap |-> Accumulate(st.ruleMap, key,
                            [rule |-> rule, visualId |-> ruleVisualId,
                             presentIn |-> <<label>>], label),
     edgeMap |-> CollectEdges(st.edgeMap, rule, ruleVisualId, label),
     ruleCounter |-> st.ruleCounter + 1]

CollectRuleByKey(st, rule, label, key) ==
    IF Has(st.ruleMap, key)
    THEN CollectKnownRule(st, rule, label, key)
    ELSE CollectNewRule(st, rule, label, key, RuleVisualId(st.ruleCounter + 1, rule))

\* one iteration of the rule loop: st = [parameterMap, ruleMap, edgeMap, ruleCounter]
CollectRule(st, rule, label) == CollectRuleByKey(st, rule, label, ruleKey(rule))

RECURSIVE CollectRules(_, _, _)
CollectRules(st, rules, label) ==
    IF rules = <<>> THEN st
    ELSE CollectRules(CollectRule(st, Head(rules), label), Tail(rules), label)

\* one iteration of the graph loop: the parameters, then the rules and their edges
CollectGraph(st, label, graph) ==
    CollectRules([parameterMap |-> CollectParameters(st.parameterMap,
                                                     Values(graph.parameters), label),
                  ruleMap |-> st.ruleMap, edgeMap |-> st.edgeMap,
                  ruleCounter |-> st.ruleCounter],
                 Values(graph.rules), label)

RECURSIVE CollectGraphs(_, _)
CollectGraphs(st, labeledGraphs) ==
    IF labeledGraphs = <<>> THEN st
    ELSE CollectGraphs(CollectGraph(st, Head(labeledGraphs).label, Head(labeledGraphs).graph),
                       Tail(labeledGraphs))

\* entities.filter(e => e.status === status).length, counting every status but "common"
CountStatusNotCommon(entities, status) ==
    Cardinality({i \in 1..Len(entities) : entities[i].status # "common"})

\* entities.filter(e => e.status === status).length
CountStatus(entities, status) ==
    Cardinality({i \in 1..Len(entities) : entities[i].status = status})

CategoryMetrics(entities) ==
    [total |-> Len(entities),
     common |-> CountStatus(entities, "common"),
     partial |-> CountStatus(entities, "partial"),
     unique |-> CountStatus(entities, "unique")]

computeMetrics(diffGraph) ==
    [parameters |-> CategoryMetrics(Values(diffGraph.parameters)),
     rules |-> CategoryMetrics(Values(diffGraph.rules)),
     edges |-> CategoryMetrics(diffGraph.edges)]

DIFF_COLORS(status) ==
    CASE status = "common" -> "black"
      [] status = "partial" -> "orange"
      [] status = "unique" -> "red"

\* an edge style table with the styles of partial and unique exchanged
DiffEdgeStylesExchanged(status) ==
    CASE status = "common" -> "solid"
      [] status = "partial" -> "bold"
      [] status = "unique" -> "dashed"

DIFF_EDGE_STYLES(status) ==
    CASE status = "common" -> "solid"
      [] status = "partial" -> "dashed"
      [] status = "unique" -> "bold"

\* node labels and metadata are display text and are left out
diffToVisual(diffParameters, diffRules, diffEdges) ==
    LET params == Values(diffParameters)
        rules == Values(diffRules)
        paramNodes == [i \in 1..Len(params) |->
            [id |-> params[i].id, shape |-> "ellipse",
             style |-> IF params[i].source = "derived" THEN <<"dashed">> ELSE <<"solid">>,
             color |-> DIFF_COLORS(params[i].status),
             fillColor |-> "none",
             presentIn |-> params[i].presence.presentIn,
             agreementStatus |-> params[i].status]]
        ruleNodes == [i \in 1..Len(rules) |->
            [id |-> rules[i].visualId, shape |-> "box",
             style |-> <<"rounded", "filled">>,
             color |-> DIFF_COLORS(rules[i].status),
             fillColor |-> IF rules[i].status = "common" THEN "lightgray"
                           ELSE IF rules[i].status = "partial" THEN "#ffe4b5" ELSE "#ffcccb",
             presentIn |-> rules[i].presence.presentIn,
             agreementStatus |-> rules[i].status]]
        edges == [i \in 1..Len(diffEdges) |->
            [from |-> diffEdges[i].from, to |-> diffEdges[i].to,
             style |-> DIFF_EDGE_STYLES(diffEdges[i].status),
             color |-> DIFF_COLORS(diffEdges[i].status),
             arrowhead |-> "normal",
             presentIn |-> diffEdges[i].presence.presentIn,
             agreementStatus |-> diffEdges[i].status]]
    IN [nodes |-> paramNodes \o ruleNodes, edges |-> edges, direction |-> "LR"]

Presence(presentIn, totalSources) == [presentIn |-> presentIn, totalSources |-> totalSources]

\* a builder that writes the annotations and source "derived" over the collected parameter
DiffParametersAllDerived(parameterMap, totalSources) ==
    [i \in 1..Len(parameterMap) |->
        [k |-> parameterMap[i].k,
         v |-> [id |-> parameterMap[i].v.param.id, type |-> parameterMap[i].v.param.type,
                source |-> "derived",
                presence |-> Presence(parameterMap[i].v.presentIn, totalSources),
                status |-> computeStatus(Presence(parameterMap[i].v.presentIn, totalSources))]]]

DiffParameters(parameterMap, totalSources) ==
    [i \in 1..Len(parameterMap) |->
        [k |-> parameterMap[i].k,
         v |-> [id |-> parameterMap[i].v.param.id, type |-> parameterMap[i].v.param.type,
                source |-> parameterMap[i].v.param.source,
                presence |-> Presence(parameterMap[i].v.presentIn, totalSources),
                status |-> computeStatus(Presence(parameterMap[i].v.presentIn, totalSources))]]]

DiffRules(ruleMap, totalSources) ==
    [i \in 1..Len(ruleMap) |->
        [k |-> ruleMap[i].k,
         v |-> [id |-> ruleMap[i].v.rule.id, inputs |-> ruleMap[i].v.rule.inputs,
                outputs |-> ruleMap[i].v.rule.outputs, logic |-> ruleMap[i].v.rule.logic,
                visualId |-> ruleMap[i].v.visualId,
                presence |-> Presence(ruleMap[i].v.presentIn, totalSources),
                status |-> computeStatus(Presence(ruleMap[i].v.presentIn, totalSources))]]]

DiffEdges(edgeMap, totalSources) ==
    [i \in 1..Len(edgeMap) |->
        [from |-> edgeMap[i].v.from, to |-> edgeMap[i].v.to,
         presence |-> Presence(edgeMap[i].v.presentIn, totalSources),
         status |-> computeStatus(Presence(edgeMap[i].v.presentIn, totalSources))]]

DiffGraph(diffParameters, diffRules, diffEdges, sources) ==
    [parameters |-> diffParameters, rules |-> diffRules, edges |-> diffEdges,
     sources |-> sources]

DiffResult(diffGraph) ==
    [diffGraph |-> diffGraph,
     metrics |-> computeMetrics(diffGraph),
     visualGraph |-> diffToVisual(diffGraph.parameters, diffGraph.rules, diffGraph.edges)]

\* the second half of computeDiff: from the three presence maps to the result
BuildDiff(st, sources) ==
    DiffResult(DiffGraph(DiffParameters(st.parameterMap, Len(sources)),
                         DiffRules(st.ruleMap, Len(sources)),
                         DiffEdges(st.edgeMap, Len(sources)),
                         sources))

computeDiff(labeledGraphs) ==
    IF Len(labeledGraphs) < 2 THEN Thrown("Diff requires at least 2 graphs")
    ELSE Returned(BuildDiff(
            CollectGraphs([parameterMap |-> <<>>, ruleMap |-> <<>>, edgeMap |-> <<>>,
                           ruleCounter |-> 0], labeledGraphs),
            [i \in 1..Len(labeledGraphs) |-> labeledGraphs[i].label]))

(***************************************************************************)
(* Inputs of the diff engine: graphs that pass validation, under the       *)
(* labels the application gives its sources                                *)
(***************************************************************************)
\* `LLM ${inputCounter}`
Label(i) == <<"L", "L", "M", " ">> \o ToDecimal(i)

DiffParamIds == {A, B}
DiffRuleInputs == {<<>>, <<A>>, <<A, A>>}
\* the rule r writing b: one logic for every input list, and a second logic for <<a>>
DiffRuleChoices ==
    {CanonicalRule(R, ins, <<B>>, <<"x">>) : ins \in DiffRuleInputs}
    \cup {CanonicalRule(R, <<A>>, <<B>>, <<>>)}

\* parameters as a normalizer leaves them: derived when a rule of the graph writes them
DiffParamsObject(ids, written) ==
    LET s == SortedSeq(ids)
    IN [i \in 1..Len(s) |->
          [k |-> s[i],
           v |-> CanonicalParameter(s[i], NumberType,
                                    IF s[i] \in written THEN "derived" ELSE "input")]]

DiffCandidates ==
    {CanonicalGraph(DiffParamsObject(ps, {}), <<>>) : ps \in SUBSET DiffParamIds}
    \cup
    {CanonicalGraph(DiffParamsObject(ps, {B}), <<[k |-> R, v |-> rule]>>) :
        ps \in SUBSET DiffParamIds, rule \in DiffRuleChoices}

DiffGraphPool == {g \in DiffCandidates : validateCanonicalGraph(g).success}

LabeledGraphLists ==
    UNION {{[i \in 1..n |-> [label |-> Label(i), graph |-> gs[i]]] : gs \in [1..n -> DiffGraphPool]}
           : n \in 0..MaxSources}

(***************************************************************************)
(* Specification of the diff entry point                                   *)
(***************************************************************************)
InitDiff ==
    /\ phase = "diff"
    /\ dGraphs \in LabeledGraphLists
    /\ dResult = NoOutcome
    /\ Idle("diff")

ComputeDiff ==
    /\ phase = "diff"
    /\ dResult' = computeDiff(dGraphs)
    /\ phase' = "diffed"
    /\ UNCHANGED dGraphs
    /\ Untouched("diff")

NextDiff == ComputeDiff

SpecDiff == InitDiff /\ [][NextDiff]_vars

(***************************************************************************)
(* The diff entry point on graphs whose parameter ids have the form of the *)
(* synthetic rule identifiers; normalizeId leaves such ids as they are     *)
(***************************************************************************)
RuleOneR == <<"r", "u", "l", "e", "_", "1", "_", "r">>
RuleTwoS == <<"r", "u", "l", "e", "_", "2", "_", "s">>

InputParams(ids) ==
    [i \in 1..Len(ids) |-> [k |-> ids[i], v |-> CanonicalParameter(ids[i], NumberType, "input")]]

RulesObject(rules) == [i \in 1..Len(rules) |-> [k |-> rules[i].id, v |-> rules[i]]]

SyntheticLikeCandidates ==
    {CanonicalGraph(<<>>, <<>>),
     CanonicalGraph(InputParams(<<A, B>>),
                    RulesObject(<<CanonicalRule(R, <<A>>, <<B>>, <<>>)>>)),
     CanonicalGraph(InputParams(<<A, B>>),
                    RulesObject(<<CanonicalRule(R, <<A>>, <<B>>, <<"x">>)>>)),
     CanonicalGraph(InputParams(<<A, RuleOneR>>),
                    RulesObject(<<CanonicalRule(R, <<A>>, <<RuleOneR>>, <<>>)>>)),
     CanonicalGraph(InputParams(<<A, RuleOneR>>),
                    RulesObject(<<CanonicalRule(S, <<A>>, <<RuleOneR>>, <<>>)>>)),
     CanonicalGraph(InputParams(<<B, RuleTwoS>>),
                    RulesObject(<<CanonicalRule(R, <<RuleTwoS>>, <<B>>, <<>>)>>)),
     CanonicalGraph(InputParams(<<A, B, RuleOneR, RuleTwoS>>),
                    RulesObject(<<CanonicalRule(R, <<RuleTwoS>>, <<B>>, <<>>),
                                  CanonicalRule(S, <<A>>, <<RuleOneR>>, <<>>)>>))}

SyntheticLikePool == {g \in SyntheticLikeCandidates : validateCanonicalGraph(g).success}

SyntheticLikeLists ==
    UNION {{[i \in 1..n |-> [label |-> Label(i), graph |-> gs[i]]] :
               gs \in [1..n -> SyntheticLikePool]}
           : n \in 0..MaxSources}

InitDiffIds ==
    /\ phase = "diff"
    /\ dGraphs \in SyntheticLikeLists
    /\ dResult = NoOutcome
    /\ Idle("diff")

SpecDiffIds == InitDiffIds /\ [][NextDiff]_vars

(***************************************************************************)
(* normalizeId                                                             *)
(***************************************************************************)
Whitespace == {" "}
Separators == Whitespace \cup {"-"}
DottedCapitalI == "U+0130"
CombiningDot == "U+0307"
NonAsciiChars == {"é", DottedCapitalI, CombiningDot}
IdChars == LowerChars \cup DigitChars \cup {"_"}

UpperSeq == <<"A","B","C","D","E","F","G","H","I","J","K","L","M","N","O","P","Q","R",
              "S","T","U","V","W","X","Y","Z">>
LowerSeq == <<"a","b","c","d","e","f","g","h","i","j","k","l","m","n","o","p","q","r",
              "s","t","u","v","w","x","y","z">>

RECURSIVE DropWhile(_, _)
DropWhile(str, chars) ==
    IF str # <<>> /\ Head(str) \in chars THEN DropWhile(Tail(str), chars) ELSE str

DropWhileEnd(str, chars) == Reverse(DropWhile(Reverse(str), chars))

\* String.prototype.trim
Trim(str) == DropWhileEnd(DropWhile(str, Whitespace), Whitespace)

ToLowerChar(c) ==
    IF c \in UpperChars THEN LowerSeq[CHOOSE i \in 1..Len(UpperSeq) : UpperSeq[i] = c] ELSE c

\* String.prototype.toLowerCase; the capital dotted I lowers to two code units
RECURSIVE toLowerCase(_)
toLowerCase(str) ==
    IF str = <<>> THEN <<>>
    ELSE (IF Head(str) = DottedCapitalI THEN <<"i", CombiningDot>> ELSE <<ToLowerChar(Head(str))>>)
         \o toLowerCase(Tail(str))

\* str.replace(/[\s-]+/g, '_')
RECURSIVE ReplaceSeparators(_)
ReplaceSeparators(str) ==
    IF str = <<>> THEN <<>>
    ELSE IF Head(str) \in Separators
         THEN <<"_">> \o ReplaceSeparators(DropWhile(str, Separators))
         ELSE <<Head(str)>> \o ReplaceSeparators(Tail(str))

\* str.replace(/[^\x00-\x7F]/g, '')
RemoveNonAscii(str) == FilterChars(str, SeqToSet(CharOrder) \ NonAsciiChars)

\* str.replace(/^_+|_+$/g, '')
StripUnderscores(str) == DropWhileEnd(DropWhile(str, {"_"}), {"_"})

\* the same replacements with the underscores stripped before the filtering
normalizeIdStripFirst(id) ==
    CollapseUnderscores(FilterChars(RemoveNonAscii(
        StripUnderscores(ReplaceSeparators(toLowerCase(Trim(id))))), IdChars))

normalizeId(id) ==
    StripUnderscores(CollapseUnderscores(FilterChars(RemoveNonAscii(
        ReplaceSeparators(toLowerCase(Trim(id)))), IdChars)))

isValidId(id) == Len(normalizeId(id)) > 0

(***************************************************************************)
(* Arguments of normalizeId: every string of at most MaxIdLen characters   *)
(* over letters of both cases, separators, an underscore, punctuation and  *)
(* characters outside ASCII.                                               *)
(***************************************************************************)
IdAlphabet == {"a", "B", "_", "-", " ", "!", "é", DottedCapitalI}

IdStrings == UNION {[1..n -> IdAlphabet] : n \in 0..MaxIdLen}

InitNormalizeId ==
    /\ phase = "normalizeId"
    /\ idArg \in IdStrings
    /\ idResult = NoOutcome
    /\ Idle("normalizeId")

\* normalizeId(x), normalizeId of that, and isValidId(x)
NormalizeId ==
    /\ phase = "normalizeId"
    /\ idResult' = [kind |-> "returned",
                    once |-> normalizeId(idArg),
                    twice |-> normalizeId(normalizeId(idArg)),
                    valid |-> isValidId(idArg)]
    /\ phase' = "normalizedId"
    /\ UNCHANGED idArg
    /\ Untouched("normalizeId")

NextNormalizeId == NormalizeId

SpecNormalizeId == InitNormalizeId /\ [][NextNormalizeId]_vars

(***************************************************************************)
(* JSON documents and the JavaScript operations the normalizers apply to   *)
(* them.  A document is the value JSON.parse yields for the input text;    *)
(* InvalidJsonText stands for every text JSON.parse rejects.               *)
(***************************************************************************)
JNull == [null |-> TRUE]
JUndefined == [undefined |-> TRUE]     \* what reading an absent property yields
JStr(s) == [str |-> s]
JNum(n) == [num |-> n]
JArr(items) == [arr |-> items]
JObj(entries) == [obj |-> entries]
InvalidJsonText == [invalid |-> TRUE]

IsStr(v) == DOMAIN v = {"str"}
IsArr(v) == DOMAIN v = {"arr"}
IsObj(v) == DOMAIN v = {"obj"}

\* reading a property of null or undefined raises a TypeError
Nullish(v) == v = JNull \/ v = JUndefined
\* the values that || replaces by its right operand
Falsy(v) == Nullish(v) \/ v = JStr(<<>>) \/ v = JNum(0)

\* v.key for a value that is not nullish
Field(v, key) == IF IsObj(v) /\ Has(v.obj, key) THEN Get(v.obj, key) ELSE JUndefined

\* Object.entries(v)
Entries(v) ==
    IF IsObj(v) THEN v.obj
    ELSE IF IsArr(v) THEN [i \in 1..Len(v.arr) |-> [k |-> ToDecimal(i - 1), v |-> v.arr[i]]]
    ELSE <<>>

\* for (const item of v || []): arrays and strings are iterable, numbers and plain
\* objects are not
Iterable(v) == Falsy(v) \/ IsArr(v) \/ IsStr(v)
Items(v) ==
    IF IsArr(v) THEN v.arr
    ELSE IF IsStr(v) THEN [i \in 1..Len(v.str) |-> JStr(<<v.str[i]>>)]
    ELSE <<>>

\* f(v || '') for an f that calls a String method on its argument: a TypeError
\* unless the argument is a string
StringArgumentOk(v) == Falsy(v) \/ IsStr(v)
StringArgument(v) == IF IsStr(v) THEN v.str ELSE <<>>

\* v || '' stored as the logic of a rule
LogicOf(v) == IF Falsy(v) THEN <<>> ELSE IF IsStr(v) THEN v.str ELSE v

KeyParameters == <<"p","a","r","a","m","e","t","e","r","s">>
KeyRules == <<"r","u","l","e","s">>
KeyPipeline == <<"p","i","p","e","l","i","n","e">>
KeyType == <<"t","y","p","e">>
KeyId == <<"i","d">>
KeyInputs == <<"i","n","p","u","t","s">>
KeyOutputs == <<"o","u","t","p","u","t","s">>
KeyLogic == <<"l","o","g","i","c">>
KeyComputedBy == <<"c","o","m","p","u","t","e","d","_","b","y">>
KeyRuleId == <<"r","u","l","e","_","i","d">>
KeyInputParameters == <<"i","n","p","u","t","_","p","a","r","a","m","e","t","e","r","s">>
KeyOutputParameters == <<"o","u","t","p","u","t","_","p","a","r","a","m","e","t","e","r","s">>
KeyName == <<"n","a","m","e">>

\* ['number', 'boolean', 'string'].includes(type)
ValidTypes == {JStr(NumberType), JStr(BooleanType), JStr(StringType)}

(***************************************************************************)
(* Format normalizers.  The locals of a normalizer are one record; thrown  *)
(* is set when a statement raises a TypeError, which ends the call.        *)
(***************************************************************************)
invalidJson == createError("INVALID_JSON", Undefined, Undefined, Undefined, <<>>)
schemaMismatch == createError("SCHEMA_MISMATCH", Undefined, Undefined, Undefined, <<>>)
validationError == createError("VALIDATION_ERROR", Undefined, Undefined, Undefined, <<>>)
emptyParameterName(parameter, ruleId) ==
    createError("EMPTY_PARAMETER_NAME", parameter, ruleId, Undefined, <<>>)
missingType(parameter, ruleId) ==
    createError("MISSING_TYPE", parameter, ruleId, Undefined, <<>>)
conflictingType(parameter, ruleId) ==
    createError("CONFLICTING_TYPE", parameter, ruleId, Undefined, <<>>)

NewLocals ==
    [errors |-> <<>>, parameters |-> <<>>, rules |-> <<>>, outputWriters |-> <<>>,
     paramTypes |-> <<>>, normalizedInputs |-> <<>>, normalizedOutputs |-> <<>>,
     thrown |-> FALSE, wroteObjectSource |-> FALSE]

PushError(st, e) == [st EXCEPT !.errors = Append(@, e)]
Throw(st) == [st EXCEPT !.thrown = TRUE]
StartRule(st) == [st EXCEPT !.normalizedInputs = <<>>, !.normalizedOutputs = <<>>]

\* parameters[id].source = 'derived'; when id is only a member of Object.prototype
\* the assignment lands on that member (the global Object function for the id
\* "constructor") and no parameter changes
MarkDerived(parameters, id) ==
    IF Has(parameters, id)
    THEN Put(parameters, id, [Get(parameters, id) EXCEPT !.source = "derived"])
    ELSE parameters

\* [...new Set(ids)]
RECURSIVE Unique(_)
Unique(ids) ==
    IF ids = <<>> THEN <<>> ELSE SetAdd(Unique(SubSeq(ids, 1, Len(ids) - 1)), ids[Len(ids)])

\* return of a normalizer, or the exception that left it
Finish(st) ==
    IF st.thrown THEN Thrown("TypeError")
    ELSE IF Len(st.errors) > 0 THEN Returned(err(st.errors))
    ELSE Returned(ok(CanonicalGraph(st.parameters, st.rules)))

(*************************** Format A ***************************)
\* body of the registry loop (formats A, B and D); source is what the format puts in
\* the new parameter
RegisterParameter(st, rawId, paramDef, source) ==
    IF ~isValidId(rawId) THEN PushError(st, emptyParameterName(rawId, Undefined))
    ELSE IF Nullish(paramDef) THEN Throw(st)
    ELSE IF Field(paramDef, KeyType) \notin ValidTypes
         THEN PushError(st, missingType(normalizeId(rawId), Undefined))
    ELSE [st EXCEPT !.parameters =
             Put(@, normalizeId(rawId),
                 CanonicalParameter(normalizeId(rawId), Field(paramDef, KeyType).str, source))]

RECURSIVE RegisterParameters(_, _)
RegisterParameters(st, entries) ==
    IF st.thrown \/ entries = <<>> THEN st
    ELSE RegisterParameters(RegisterParameter(st, Head(entries).k, Head(entries).v, "input"),
                             Tail(entries))

\* a reference in an inputs list (the same statements in formats A, B and D)
InputRef(st, id, ruleId) ==
    IF ~Truthy(st.parameters, id) THEN PushError(st, undeclaredParameter(id, ruleId))
    ELSE [st EXCEPT !.normalizedInputs = Append(@, id)]

RECURSIVE InputRefs(_, _, _)
InputRefs(st, items, ruleId) ==
    IF st.thrown \/ items = <<>> THEN st
    ELSE IF ~IsStr(Head(items)) THEN Throw(st)
    ELSE InputRefs(InputRef(st, normalizeId(Head(items).str), ruleId), Tail(items), ruleId)

OutputRefA(st, id, ruleId) ==
    IF ~Truthy(st.parameters, id) THEN PushError(st, undeclaredParameter(id, ruleId))
    ELSE IF Has(st.outputWriters, id)
         THEN [st EXCEPT !.errors = Append(@, duplicateOutput(id, ruleId,
                                                             Get(st.outputWriters, id))),
                         !.normalizedOutputs = Append(@, id)]
    ELSE [st EXCEPT !.outputWriters = Put(@, id, ruleId),
                    !.parameters = MarkDerived(@, id),
                    !.wroteObjectSource = @ \/ ~Has(st.parameters, id),
                    !.normalizedOutputs = Append(@, id)]

RECURSIVE OutputsA(_, _, _)
OutputsA(st, items, ruleId) ==
    IF st.thrown \/ items = <<>> THEN st
    ELSE IF ~IsStr(Head(items)) THEN Throw(st)
    ELSE OutputsA(OutputRefA(st, normalizeId(Head(items).str), ruleId), Tail(items), ruleId)

StoreRuleA(st, rule, ruleId) ==
    IF st.thrown THEN st
    ELSE IF Len(st.normalizedOutputs) = 0 THEN PushError(st, ruleNoOutputs(ruleId))
    ELSE [st EXCEPT !.rules =
             Put(@, ruleId, CanonicalRule(ruleId, st.normalizedInputs, st.normalizedOutputs,
                                          LogicOf(Field(rule, KeyLogic))))]

RuleOutputsA(st, rule, ruleId) ==
    IF st.thrown THEN st
    ELSE IF ~Iterable(Field(rule, KeyOutputs)) THEN Throw(st)
    ELSE StoreRuleA(OutputsA(st, Items(Field(rule, KeyOutputs)), ruleId), rule, ruleId)

RuleWithIdA(st, rule, ruleId) ==
    IF ruleId = <<>> THEN PushError(st, validationError)
    ELSE IF ~Iterable(Field(rule, KeyInputs)) THEN Throw(st)
    ELSE RuleOutputsA(InputRefs(StartRule(st), Items(Field(rule, KeyInputs)), ruleId),
                      rule, ruleId)

\* body of the rule loop
RuleA(st, rule) ==
    IF Nullish(rule) THEN Throw(st)
    ELSE IF ~StringArgumentOk(Field(rule, KeyId)) THEN Throw(st)
    ELSE RuleWithIdA(st, rule, normalizeId(StringArgument(Field(rule, KeyId))))

RECURSIVE RulesA(_, _)
RulesA(st, rules) ==
    IF st.thrown \/ rules = <<>> THEN st
    ELSE RulesA(RuleA(st, Head(rules)), Tail(rules))

RulesStepA(st, rules) ==
    IF st.thrown THEN Finish(st)
    ELSE IF ~IsArr(rules) THEN Returned(err(Append(st.errors, schemaMismatch)))
    ELSE Finish(RulesA(st, rules.arr))

normalizeFormatA(input) ==
    RulesStepA(RegisterParameters(NewLocals, Entries(Field(input, KeyParameters))),
               Field(input, KeyRules))

(*************************** Format D ***************************)
\* Array.isArray(paramDef.computed_by) && paramDef.computed_by.length > 0
HasComputation(paramDef) ==
    IsArr(Field(paramDef, KeyComputedBy)) /\ Len(Field(paramDef, KeyComputedBy).arr) > 0

\* first pass (paramTypes is written here and never read)
RECURSIVE RegisterParametersD(_, _)
RegisterParametersD(st, entries) ==
    IF st.thrown \/ entries = <<>> THEN st
    ELSE RegisterParametersD(
            RegisterParameter(st, Head(entries).k, Head(entries).v,
                              IF HasComputation(Head(entries).v) THEN "derived" ELSE "input"),
            Tail(entries))

\* `compute_${outputId}` or `compute_${outputId}_${i + 1}`; i counts from 1 here
ComputeRuleId(outputId, i, length) ==
    IF length = 1 THEN <<"c","o","m","p","u","t","e","_">> \o outputId
    ELSE <<"c","o","m","p","u","t","e","_">> \o outputId \o <<"_">> \o ToDecimal(i)

StoreRuleD(st, computation, ruleId, outputId) ==
    IF st.thrown THEN st
    ELSE [st EXCEPT !.rules =
             Put(@, ruleId, CanonicalRule(ruleId, Unique(st.normalizedInputs), <<outputId>>,
                                          LogicOf(Field(computation, KeyLogic))))]

\* body of the computed_by loop
ComputationD(st, computation, ruleId, outputId) ==
    IF Nullish(computation) THEN Throw(st)
    ELSE IF ~Iterable(Field(computation, KeyInputs)) THEN Throw(st)
    ELSE StoreRuleD(InputRefs(StartRule(st), Items(Field(computation, KeyInputs)), ruleId),
                    computation, ruleId, outputId)

RECURSIVE ComputationsD(_, _, _, _)
ComputationsD(st, computedBy, i, outputId) ==
    IF st.thrown \/ i > Len(computedBy) THEN st
    ELSE ComputationsD(ComputationD(st, computedBy[i],
                                    ComputeRuleId(outputId, i, Len(computedBy)), outputId),
                       computedBy, i + 1, outputId)

\* body of the second pass
ExtractRulesD(st, outputId, paramDef) ==
    IF ~Truthy(st.parameters, outputId) THEN st
    ELSE IF Nullish(paramDef) THEN Throw(st)
    ELSE IF ~HasComputation(paramDef) THEN st
    ELSE ComputationsD(st, Field(paramDef, KeyComputedBy).arr, 1, outputId)

RECURSIVE SecondPassD(_, _)
SecondPassD(st, entries) ==
    IF st.thrown \/ entries = <<>> THEN st
    ELSE SecondPassD(ExtractRulesD(st, normalizeId(Head(entries).k), Head(entries).v),
                     Tail(entries))

normalizeFormatD(input) ==
    IF ~IsObj(input) THEN Returned(err(<<schemaMismatch>>))
    ELSE Finish(SecondPassD(RegisterParametersD(NewLocals, Entries(input)), Entries(input)))

(*************************** Format C ***************************)
\* paramTypes.get(id) is set and differs from the declared type
TypeConflict(st, id, type) == Has(st.paramTypes, id) /\ Get(st.paramTypes, id) # type

\* if (!parameters[id]) parameters[id] = {id, type, source: 'input'}
DeclareInputC(st, id, type) ==
    [st EXCEPT !.paramTypes = Put(@, id, type),
               !.parameters = IF Truthy(@, id) THEN @
                              ELSE Put(@, id, CanonicalParameter(id, type, "input")),
               !.normalizedInputs = Append(@, id)]

InputParamTypedC(st, id, typeValue, ruleId) ==
    IF typeValue \notin ValidTypes THEN PushError(st, missingType(id, ruleId))
    ELSE IF TypeConflict(st, id, typeValue.str) THEN PushError(st, conflictingType(id, ruleId))
    ELSE DeclareInputC(st, id, typeValue.str)

\* body of the input_parameters loop
InputParamC(st, inputParam, ruleId) ==
    IF Nullish(inputParam) THEN Throw(st)
    ELSE IF ~StringArgumentOk(Field(inputParam, KeyName)) THEN Throw(st)
    ELSE IF ~isValidId(StringArgument(Field(inputParam, KeyName)))
         THEN PushError(st, emptyParameterName(Undefined, ruleId))
    ELSE InputParamTypedC(st, normalizeId(StringArgument(Field(inputParam, KeyName))),
                          Field(inputParam, KeyType), ruleId)

RECURSIVE InputParamsC(_, _, _)
InputParamsC(st, items, ruleId) ==
    IF st.thrown \/ items = <<>> THEN st
    ELSE InputParamsC(InputParamC(st, Head(items), ruleId), Tail(items), ruleId)

\* outputWriters.set(id, ruleId), then the parameter is created or marked derived
DeclareOutputC(st, id, type, ruleId) ==
    [st EXCEPT !.paramTypes = Put(@, id, type),
               !.outputWriters = Put(@, id, ruleId),
               !.parameters = IF Truthy(@, id) THEN MarkDerived(@, id)
                              ELSE Put(@, id, CanonicalParameter(id, type, "derived")),
               !.wroteObjectSource = @ \/ (Truthy(st.parameters, id) /\ ~Has(st.parameters, id)),
               !.normalizedOutputs = Append(@, id)]

OutputParamTypedC(st, id, typeValue, ruleId) ==
    IF typeValue \notin ValidTypes THEN PushError(st, missingType(id, ruleId))
    ELSE IF TypeConflict(st, id, typeValue.str) THEN PushError(st, conflictingType(id, ruleId))
    ELSE IF Has(st.outputWriters, id)
         THEN [st EXCEPT !.paramTypes = Put(@, id, typeValue.str),
                         !.errors = Append(@, duplicateOutput(id, ruleId,
                                                             Get(st.outputWriters, id)))]
    ELSE DeclareOutputC(st, id, typeValue.str, ruleId)

\* body of the output_parameters loop
OutputParamC(st, outputParam, ruleId) ==
    IF Nullish(outputParam) THEN Throw(st)
    ELSE IF ~StringArgumentOk(Field(outputParam, KeyName)) THEN Throw(st)
    ELSE IF ~isValidId(StringArgument(Field(outputParam, KeyName)))
         THEN PushError(st, emptyParameterName(Undefined, ruleId))
    ELSE OutputParamTypedC(st, normalizeId(StringArgument(Field(outputParam, KeyName))),
                           Field(outputParam, KeyType), ruleId)

RECURSIVE OutputParamsC(_, _, _)
OutputParamsC(st, items, ruleId) ==
    IF st.thrown \/ items = <<>> THEN st
    ELSE OutputParamsC(OutputParamC(st, Head(items), ruleId), Tail(items), ruleId)

StoreRuleC(st, block, ruleId) ==
    IF st.thrown THEN st
    ELSE IF Len(st.normalizedOutputs) = 0 THEN PushError(st, ruleNoOutputs(ruleId))
    ELSE [st EXCEPT !.rules =
             Put(@, ruleId, CanonicalRule(ruleId, Unique(st.normalizedInputs),
                                          Unique(st.normalizedOutputs),
                                          LogicOf(Field(block, KeyLogic))))]

BlockOutputsC(st, block, ruleId) ==
    IF st.thrown THEN st
    ELSE IF ~Iterable(Field(block, KeyOutputParameters)) THEN Throw(st)
    ELSE StoreRuleC(OutputParamsC(st, Items(Field(block, KeyOutputParameters)), ruleId),
                    block, ruleId)

BlockWithIdC(st, block, ruleId) ==
    IF ruleId = <<>> THEN PushError(st, validationError)
    ELSE IF ~Iterable(Field(block, KeyInputParameters)) THEN Throw(st)
    ELSE BlockOutputsC(InputParamsC(StartRule(st), Items(Field(block, KeyInputParameters)),
                                    ruleId),
                       block, ruleId)

\* body of the block loop
BlockC(st, block) ==
    IF Nullish(block) THEN Throw(st)
    ELSE IF ~StringArgumentOk(Field(block, KeyRuleId)) THEN Throw(st)
    ELSE BlockWithIdC(st, block, normalizeId(StringArgument(Field(block, KeyRuleId))))

RECURSIVE BlocksC(_, _)
BlocksC(st, blocks) ==
    IF st.thrown \/ blocks = <<>> THEN st
    ELSE BlocksC(BlockC(st, Head(blocks)), Tail(blocks))

normalizeFormatC(input) ==
    IF ~IsArr(input) THEN Returned(err(<<schemaMismatch>>))
    ELSE Finish(BlocksC(NewLocals, input.arr))

(***************************************************************************)
(* Static analysis of rule logic (Format B)                                *)
(***************************************************************************)
JS_KEYWORDS ==
    {<<"t","r","u","e">>, <<"f","a","l","s","e">>, <<"n","u","l","l">>,
     <<"u","n","d","e","f","i","n","e","d">>, <<"i","f">>, <<"e","l","s","e">>,
     <<"f","o","r">>, <<"w","h","i","l","e">>, <<"d","o">>, <<"s","w","i","t","c","h">>,
     <<"c","a","s","e">>, <<"b","r","e","a","k">>, <<"c","o","n","t","i","n","u","e">>,
     <<"r","e","t","u","r","n">>, <<"f","u","n","c","t","i","o","n">>, <<"c","o","n","s","t">>,
     <<"l","e","t">>, <<"v","a","r">>, <<"n","e","w">>, <<"t","h","i","s">>,
     <<"t","y","p","e","o","f">>, <<"i","n","s","t","a","n","c","e","o","f">>, <<"i","n">>,
     <<"o","f">>, <<"t","r","y">>, <<"c","a","t","c","h">>, <<"f","i","n","a","l","l","y">>,
     <<"t","h","r","o","w">>, <<"c","l","a","s","s">>, <<"e","x","t","e","n","d","s">>,
     <<"s","u","p","e","r">>, <<"s","t","a","t","i","c">>, <<"i","m","p","o","r","t">>,
     <<"e","x","p","o","r","t">>, <<"d","e","f","a","u","l","t">>, <<"f","r","o","m">>,
     <<"a","s">>, <<"a","s","y","n","c">>, <<"a","w","a","i","t">>, <<"y","i","e","l","d">>,
     <<"d","e","l","e","t","e">>, <<"v","o","i","d">>, <<"d","e","b","u","g","g","e","r">>,
     <<"w","i","t","h">>}

BUILTINS ==
    {<<"M","a","t","h">>, <<"N","u","m","b","e","r">>, <<"S","t","r","i","n","g">>,
     <<"B","o","o","l","e","a","n">>, <<"A","r","r","a","y">>, <<"O","b","j","e","c","t">>,
     <<"p","a","r","s","e","I","n","t">>, <<"p","a","r","s","e","F","l","o","a","t">>,
     <<"i","s","N","a","N">>, <<"i","s","F","i","n","i","t","e">>,
     <<"c","o","n","s","o","l","e">>, <<"J","S","O","N">>, <<"D","a","t","e">>}

DoubleQuote == "\""
SingleQuote == "'"
Backslash == "\\"
\* the backtick has no string literal in this notation; one token stands for it
Backtick == "BACKTICK"

IdentifierStartChars == LowerChars \cup UpperChars \cup {"_"}

\* (?:[^q\\]|\\.)*q from position i: the index of the closing quote, 0 if there is none
RECURSIVE LiteralEnd(_, _, _)
LiteralEnd(str, i, quote) ==
    IF i > Len(str) THEN 0
    ELSE IF str[i] = quote THEN i
    ELSE IF str[i] = Backslash
         THEN (IF i + 1 > Len(str) THEN 0 ELSE LiteralEnd(str, i + 2, quote))
    ELSE LiteralEnd(str, i + 1, quote)

\* str.replace(/q(?:[^q\\]|\\.)*q/g, 'qq')
RECURSIVE RemoveLiterals(_, _)
RemoveLiterals(str, quote) ==
    IF str = <<>> THEN <<>>
    ELSE IF Head(str) = quote /\ LiteralEnd(str, 2, quote) > 0
         THEN <<quote, quote>>
              \o RemoveLiterals(SubSeq(str, LiteralEnd(str, 2, quote) + 1, Len(str)), quote)
    ELSE <<Head(str)>> \o RemoveLiterals(Tail(str), quote)

WithoutStrings(logic) ==
    RemoveLiterals(RemoveLiterals(RemoveLiterals(logic, DoubleQuote), SingleQuote), Backtick)

\* \b[a-zA-Z_] at position i
IdentifierStartsAt(str, i) ==
    /\ str[i] \in IdentifierStartChars
    /\ i = 1 \/ str[i - 1] \notin WordChars

\* last position of the run [a-zA-Z0-9_]* that starts at i
RECURSIVE RunEnd(_, _)
RunEnd(str, i) ==
    IF i + 1 <= Len(str) /\ str[i + 1] \in WordChars THEN RunEnd(str, i + 1) ELSE i

\* \s* from position i: the first position that is not whitespace
RECURSIVE SkipWhitespace(_, _)
SkipWhitespace(str, i) ==
    IF i <= Len(str) /\ str[i] \in Whitespace THEN SkipWhitespace(str, i + 1) ELSE i

\* the exec loop of /\b([a-zA-Z_][a-zA-Z0-9_]*)\b/g
RECURSIVE IdentifierMatches(_, _)
IdentifierMatches(str, i) ==
    IF i > Len(str) THEN <<>>
    ELSE IF IdentifierStartsAt(str, i)
         THEN <<SubSeq(str, i, RunEnd(str, i))>> \o IdentifierMatches(str, RunEnd(str, i) + 1)
    ELSE IdentifierMatches(str, i + 1)

\* (?<!=)=(?!=) at position j; what precedes j is an identifier or whitespace
AssignmentAt(str, j) ==
    /\ j <= Len(str)
    /\ str[j] = "="
    /\ j + 1 > Len(str) \/ str[j + 1] # "="

\* the exec loop of /\b([a-zA-Z_][a-zA-Z0-9_]*)\s*(?<!=)=(?!=)/g
RECURSIVE AssignmentMatches(_, _)
AssignmentMatches(str, i) ==
    IF i > Len(str) THEN <<>>
    ELSE IF IdentifierStartsAt(str, i)
            /\ AssignmentAt(str, SkipWhitespace(str, RunEnd(str, i) + 1))
         THEN <<SubSeq(str, i, RunEnd(str, i))>>
              \o AssignmentMatches(str, SkipWhitespace(str, RunEnd(str, i) + 1) + 1)
    ELSE AssignmentMatches(str, i + 1)

\* matches that are neither keywords nor built-ins
RECURSIVE NotReserved(_)
NotReserved(ids) ==
    IF ids = <<>> THEN <<>>
    ELSE (IF Head(ids) \in JS_KEYWORDS \cup BUILTINS THEN <<>> ELSE <<Head(ids)>>)
         \o NotReserved(Tail(ids))

extractIdentifiers(logic) == Unique(NotReserved(IdentifierMatches(WithoutStrings(logic), 1)))

extractOutputs(logic) == Unique(NotReserved(AssignmentMatches(WithoutStrings(logic), 1)))

\* allIdentifiers.filter(id => !outputSet.has(id))
RECURSIVE Without(_, _)
Without(ids, excluded) ==
    IF ids = <<>> THEN <<>>
    ELSE (IF Head(ids) \in excluded THEN <<>> ELSE <<Head(ids)>>) \o Without(Tail(ids), excluded)

extractInputs(logic, outputs) == Without(extractIdentifiers(logic), SeqToSet(outputs))

analyzeLogic(logic) ==
    [inputs |-> extractInputs(logic, extractOutputs(logic)), outputs |-> extractOutputs(logic)]

(***************************************************************************)
(* Arguments of analyzeLogic: every string of at most MaxLogicLen          *)
(* characters over identifiers, the equals sign, both quotes and a space,  *)
(* and some longer statements with keywords, built-ins and comparisons.    *)
(***************************************************************************)
LogicAlphabet == {"a", "x", "=", DoubleQuote, SingleQuote, " "}

LogicSamples ==
    {<<"x", " ", "=", " ", "a", " ", "+", " ", "b", ";">>,
     <<"i", "f", " ", "(", "a", " ", "=", "=", "=", " ", "b", ")", " ", "x", "=", "1">>,
     <<"x", " ", "!", "=", "=", " ", "a">>,
     <<"x", "!", "=", "a">>,
     <<"x", " ", "<", "=", " ", "a">>,
     <<"l", "e", "t", " ", "x", "=", "M", "a", "t", "h", ".", "m", "a", "x", "(", "a", ")">>,
     <<"x", "=", Backtick, "a", Backtick, "+", "b">>,
     <<"x", "=", DoubleQuote, Backslash, DoubleQuote, "a", DoubleQuote, "+", "b">>,
     <<"a", ".", "b", " ", "=", " ", "x", "_", "1">>,
     <<"x", "=", SingleQuote, DoubleQuote, SingleQuote, "+", "a", "+",
       SingleQuote, DoubleQuote, SingleQuote>>}

LogicStrings == LogicSamples \cup UNION {[1..n -> LogicAlphabet] : n \in 0..MaxLogicLen}

InitAnalyzeLogic ==
    /\ phase = "analyzeLogic"
    /\ logicArg \in LogicStrings
    /\ logicResult = NoOutcome
    /\ Idle("analyzeLogic")

AnalyzeLogic ==
    /\ phase = "analyzeLogic"
    /\ logicResult' = [kind |-> "returned",
                       inputs |-> analyzeLogic(logicArg).inputs,
                       outputs |-> analyzeLogic(logicArg).outputs]
    /\ phase' = "analyzedLogic"
    /\ UNCHANGED logicArg
    /\ Untouched("analyzeLogic")

NextAnalyzeLogic == AnalyzeLogic

SpecAnalyzeLogic == InitAnalyzeLogic /\ [][NextAnalyzeLogic]_vars

(*************************** Format B ***************************)
OutputRefB(st, id, ruleId) ==
    IF ~Truthy(st.parameters, id) THEN PushError(st, undeclaredParameter(id, ruleId))
    ELSE IF Has(st.outputWriters, id)
         THEN PushError(st, duplicateOutput(id, ruleId, Get(st.outputWriters, id)))
    ELSE [st EXCEPT !.outputWriters = Put(@, id, ruleId),
                    !.parameters = MarkDerived(@, id),
                    !.wroteObjectSource = @ \/ ~Has(st.parameters, id),
                    !.normalizedOutputs = Append(@, id)]

RECURSIVE OutputsB(_, _, _)
OutputsB(st, rawOutputs, ruleId) ==
    IF rawOutputs = <<>> THEN st
    ELSE OutputsB(OutputRefB(st, normalizeId(Head(rawOutputs)), ruleId), Tail(rawOutputs), ruleId)

RECURSIVE InputsB(_, _, _)
InputsB(st, rawInputs, ruleId) ==
    IF rawInputs = <<>> THEN st
    ELSE InputsB(InputRef(st, normalizeId(Head(rawInputs)), ruleId), Tail(rawInputs), ruleId)

StoreRuleB(st, step, ruleId) ==
    IF Len(st.normalizedOutputs) = 0 THEN PushError(st, ruleNoOutputs(ruleId))
    ELSE [st EXCEPT !.rules =
             Put(@, ruleId, CanonicalRule(ruleId, Unique(st.normalizedInputs),
                                          Unique(st.normalizedOutputs),
                                          LogicOf(Field(step, KeyLogic))))]

\* outputs first, then inputs (definedParams is written here and never read)
AnalyzedStepB(st, step, ruleId, analysis) ==
    StoreRuleB(InputsB(OutputsB(StartRule(st), analysis.outputs, ruleId),
                       analysis.inputs, ruleId),
               step, ruleId)

StepWithIdB(st, step, ruleId) ==
    IF ruleId = <<>> THEN PushError(st, validationError)
    ELSE IF ~StringArgumentOk(Field(step, KeyLogic)) THEN Throw(st)
    ELSE AnalyzedStepB(st, step, ruleId, analyzeLogic(StringArgument(Field(step, KeyLogic))))

\* body of the pipeline loop
StepB(st, step) ==
    IF Nullish(step) THEN Throw(st)
    ELSE IF ~StringArgumentOk(Field(step, KeyRuleId)) THEN Throw(st)
    ELSE StepWithIdB(st, step, normalizeId(StringArgument(Field(step, KeyRuleId))))

RECURSIVE StepsB(_, _)
StepsB(st, steps) ==
    IF st.thrown \/ steps = <<>> THEN st
    ELSE StepsB(StepB(st, Head(steps)), Tail(steps))

PipelineStepB(st, pipeline) ==
    IF st.thrown THEN Finish(st)
    ELSE IF ~IsArr(pipeline) THEN Returned(err(Append(st.errors, schemaMismatch)))
    ELSE Finish(StepsB(st, pipeline.arr))

normalizeFormatB(input) ==
    PipelineStepB(RegisterParameters(NewLocals, Entries(Field(input, KeyParameters))),
                  Field(input, KeyPipeline))

(*************************** normalize ***************************)
\* JSON.parse inside try/catch
parseJson(input) == IF input = InvalidJsonText THEN err(<<invalidJson>>) ELSE ok(input)

isFormatA(data) ==
    /\ IsObj(data) \/ IsArr(data)
    /\ IsObj(Field(data, KeyParameters)) \/ IsArr(Field(data, KeyParameters))
    /\ IsArr(Field(data, KeyRules))
isFormatB(data) ==
    /\ IsObj(data) \/ IsArr(data)
    /\ IsObj(Field(data, KeyParameters)) \/ IsArr(Field(data, KeyParameters))
    /\ IsArr(Field(data, KeyPipeline))
isFormatC(data) == IsArr(data)
isFormatD(data) == IsObj(data) /\ ~Has(data.obj, KeyRules) /\ ~Has(data.obj, KeyPipeline)

\* the switch on the declared format
normalizeData(data, format) ==
    IF format = "A"
    THEN (IF ~isFormatA(data) THEN Returned(err(<<schemaMismatch>>))
          ELSE normalizeFormatA(data))
    ELSE IF format = "B"
    THEN (IF ~isFormatB(data) THEN Returned(err(<<schemaMismatch>>))
          ELSE normalizeFormatB(data))
    ELSE IF format = "C"
    THEN (IF ~isFormatC(data) THEN Returned(err(<<schemaMismatch>>))
          ELSE normalizeFormatC(data))
    ELSE IF format = "D"
    THEN (IF ~isFormatD(data) THEN Returned(err(<<schemaMismatch>>))
          ELSE normalizeFormatD(data))
    ELSE Returned(err(<<validationError>>))

normalize(input, format) ==
    IF ~parseJson(input).success THEN Returned(parseJson(input))
    ELSE normalizeData(parseJson(input).value, format)

(***************************************************************************)
(* Inputs of normalize: documents whose outer shape matches a format, with *)
(* well-formed and malformed inner entries, and a text that is not JSON    *)
(***************************************************************************)
X == <<"x">>
Y == <<"y">>
UpperX == <<"X">>
X1 == <<"x", "_", "1">>
Bang == <<"!">>

Entry(key, value) == [k |-> key, v |-> value]
\* {"type": "number"}
TypedDef == JObj(<<Entry(KeyType, JStr(NumberType))>>)
\* {"type": "number", "computed_by": [...]}
ComputedDef(computedBy) ==
    JObj(<<Entry(KeyType, JStr(NumberType)), Entry(KeyComputedBy, JArr(computedBy))>>)
\* {"inputs": [...]}
Computation(inputs) == JObj(<<Entry(KeyInputs, JArr(inputs))>>)
\* {"id": ..., "inputs": ..., "outputs": [...]}
RuleEntry(id, inputs, outputs) ==
    JObj(<<Entry(KeyId, id), Entry(KeyInputs, inputs), Entry(KeyOutputs, JArr(outputs))>>)
\* {"name": ..., "type": "number"}
TypedName(name) == JObj(<<Entry(KeyName, JStr(name)), Entry(KeyType, JStr(NumberType))>>)
\* {"name": ..., "type": "string"}
StringTypedName(name) ==
    JObj(<<Entry(KeyName, JStr(name)), Entry(KeyType, JStr(StringType))>>)
\* {"rule_id": ..., "input_parameters": [...], "output_parameters": [...]}
BlockEntry(ruleId, inputs, outputs) ==
    JObj(<<Entry(KeyRuleId, JStr(ruleId)), Entry(KeyInputParameters, JArr(inputs)),
           Entry(KeyOutputParameters, JArr(outputs))>>)

ParameterObjects ==
    {JObj(<<>>),
     JObj(<<Entry(X, TypedDef)>>),
     JObj(<<Entry(X, TypedDef), Entry(Y, TypedDef)>>),
     JObj(<<Entry(UpperX, TypedDef), Entry(Y, TypedDef)>>),
     JObj(<<Entry(X, TypedDef), Entry(Bang, TypedDef)>>),
     JObj(<<Entry(X, JObj(<<>>))>>),
     JObj(<<Entry(X, JNull)>>)}

RuleEntriesA ==
    {RuleEntry(JStr(R), JArr(<<JStr(Y)>>), <<JStr(X)>>),
     RuleEntry(JStr(R), JArr(<<>>), <<JStr(Y)>>),
     RuleEntry(JStr(S), JArr(<<JStr(X)>>), <<JStr(X)>>),
     RuleEntry(JStr(S), JArr(<<>>), <<JStr(X), JStr(UpperX)>>),
     RuleEntry(JStr(S), JArr(<<>>), <<>>),
     RuleEntry(JNum(5), JArr(<<>>), <<JStr(X)>>),
     RuleEntry(JStr(R), JNum(5), <<JStr(X)>>),
     RuleEntry(JStr(R), JArr(<<>>), <<JNull>>),
     JNull}

DocumentsA ==
    {JObj(<<Entry(KeyParameters, ps), Entry(KeyRules, JArr(rs))>>) :
        ps \in ParameterObjects, rs \in SeqsUpTo(RuleEntriesA, MaxEntries)}

\* {"rule_id": ..., "logic": ...}
StepEntry(ruleId, logic) == JObj(<<Entry(KeyRuleId, JStr(ruleId)), Entry(KeyLogic, logic)>>)

StepEntriesB ==
    {StepEntry(R, JStr(<<"x", " ", "=", " ", "y">>)),
     StepEntry(R, JStr(<<"y", "=", "1">>)),
     StepEntry(S, JStr(<<"y", "=", "1">>)),
     StepEntry(S, JStr(<<"x", "=", "=", "y">>)),
     StepEntry(S, JStr(<<"X", "=", "'", "y", "=", "2", "'">>)),
     StepEntry(S, JStr(<<"x", "=", "x", ".", "y">>)),
     StepEntry(R, JNum(5)),
     JNull}

DocumentsB ==
    {JObj(<<Entry(KeyParameters, ps), Entry(KeyPipeline, JArr(steps))>>) :
        ps \in ParameterObjects, steps \in SeqsUpTo(StepEntriesB, MaxEntries)}

ParameterNamesD == {X, UpperX, X1}
ParameterDefsD ==
    {TypedDef,
     ComputedDef(<<Computation(<<>>)>>),
     ComputedDef(<<Computation(<<JStr(Y)>>)>>),
     ComputedDef(<<Computation(<<>>), Computation(<<JStr(X), JStr(X)>>)>>),
     ComputedDef(<<JNull>>),
     JNull}

\* a JSON object has each key once
DistinctKeys(entries) == \A i, j \in 1..Len(entries) : entries[i].k = entries[j].k => i = j

DocumentsD ==
    {JObj(es) : es \in {s \in SeqsUpTo({Entry(n, d) : n \in ParameterNamesD,
                                                     d \in ParameterDefsD}, MaxEntries) :
                           DistinctKeys(s)}}

BlockEntriesC ==
    {BlockEntry(R, <<TypedName(Y)>>, <<TypedName(X)>>),
     BlockEntry(R, <<>>, <<TypedName(Y)>>),
     BlockEntry(S, <<TypedName(X), TypedName(X)>>, <<TypedName(X)>>),
     BlockEntry(S, <<JNull>>, <<TypedName(X)>>),
     BlockEntry(S, <<JObj(<<Entry(KeyName, JStr(X))>>)>>, <<>>),
     BlockEntry(R, <<StringTypedName(X)>>, <<TypedName(Y)>>),
     BlockEntry(S, <<TypedName(UpperX)>>, <<StringTypedName(X)>>),
     BlockEntry(<<>>, <<StringTypedName(X)>>, <<TypedName(Y)>>)}

DocumentsC == {JArr(bs) : bs \in SeqsUpTo(BlockEntriesC, MaxEntries)}

Documents == DocumentsA \cup DocumentsB \cup DocumentsC \cup DocumentsD \cup {InvalidJsonText}
Formats == {"A", "B", "C", "D"}

(***************************************************************************)
(* Specification of the normalize entry point                              *)
(***************************************************************************)
InitNormalize ==
    /\ phase = "normalize"
    /\ nFormat \in Formats
    /\ nDoc \in Documents
    /\ nResult = NoOutcome
    /\ Idle("normalize")

Normalize ==
    /\ phase = "normalize"
    /\ nResult' = normalize(nDoc, nFormat)
    /\ phase' = "normalized"
    /\ UNCHANGED <<nFormat, nDoc>>
    /\ Untouched("normalize")

NextNormalize == Normalize

SpecNormalize == InitNormalize /\ [][NextNormalize]_vars

(***************************************************************************)
(* Repeated calls of normalize in one process.  The only thing a call      *)
(* leaves behind is the property "source" that parameters[id].source =     *)
(* 'derived' puts on the global Object function when id is "constructor"   *)
(* and is not a parameter of its own; no normalizer reads it.              *)
(***************************************************************************)
\* the locals of the normalizer when it is left, by return or by exception
LocalsAtExitA(st, rules) == IF st.thrown \/ ~IsArr(rules) THEN st ELSE RulesA(st, rules.arr)
LocalsAtExitB(st, pipeline) ==
    IF st.thrown \/ ~IsArr(pipeline) THEN st ELSE StepsB(st, pipeline.arr)

LocalsAtExit(data, format) ==
    IF format = "A" /\ isFormatA(data)
    THEN LocalsAtExitA(RegisterParameters(NewLocals, Entries(Field(data, KeyParameters))),
                       Field(data, KeyRules))
    ELSE IF format = "B" /\ isFormatB(data)
    THEN LocalsAtExitB(RegisterParameters(NewLocals, Entries(Field(data, KeyParameters))),
                       Field(data, KeyPipeline))
    ELSE IF format = "C" /\ isFormatC(data) THEN BlocksC(NewLocals, data.arr)
    ELSE IF format = "D" /\ isFormatD(data)
    THEN SecondPassD(RegisterParametersD(NewLocals, Entries(data)), Entries(data))
    ELSE NewLocals

\* Object.source after normalize(input, format) was called with Object.source = before
ObjectSourceAfter(before, input, format) ==
    IF ~parseJson(input).success THEN before
    ELSE IF LocalsAtExit(parseJson(input).value, format).wroteObjectSource THEN "derived"
    ELSE before

\* a normalize that consults the property earlier calls left on Object
normalizeSeeingObjectSource(before, input, format) ==
    IF before = "derived" THEN Returned(err(<<validationError>>)) ELSE normalize(input, format)

\* normalize(input, format) called in a process whose Object.source is before
normalizeCall(before, input, format) == normalize(input, format)

\* {"parameters": {"x": number}, "rules": [{"id": "r", "inputs": [], "outputs": [...]}]}
CallDocumentA(outputs) ==
    JObj(<<Entry(KeyParameters, JObj(<<Entry(X, TypedDef)>>)),
           Entry(KeyRules, JArr(<<RuleEntry(JStr(R), JArr(<<>>), outputs)>>))>>)

CallInputs ==
    {[input |-> InvalidJsonText, format |-> "A"],
     [input |-> CallDocumentA(<<JStr(X)>>), format |-> "A"],
     [input |-> CallDocumentA(<<JStr(Constructor)>>), format |-> "A"],
     [input |-> CallDocumentA(<<JStr(Constructor)>>), format |-> "C"],
     [input |-> JArr(<<BlockEntry(R, <<TypedName(X)>>, <<TypedName(Constructor)>>)>>),
      format |-> "C"],
     [input |-> JArr(<<BlockEntry(R, <<>>, <<TypedName(X)>>)>>), format |-> "C"],
     [input |-> JObj(<<Entry(X, TypedDef),
                       Entry(Y, ComputedDef(<<Computation(<<JStr(X)>>),
                                              Computation(<<JStr(X)>>)>>))>>),
      format |-> "D"],
     [input |-> JObj(<<Entry(X, TypedDef),
                       Entry(Constructor, ComputedDef(<<Computation(<<JStr(Y)>>)>>))>>),
      format |-> "D"]}

InitCalls ==
    /\ phase = "calls"
    /\ calls = <<>>
    /\ objectSource = "undefined"
    /\ Idle("calls")

NormalizeCall ==
    /\ phase = "calls"
    /\ Len(calls) < MaxCalls
    /\ \E c \in CallInputs :
        /\ calls' = Append(calls, [input |-> c.input, format |-> c.format,
                                   result |-> normalizeCall(objectSource, c.input, c.format)])
        /\ objectSource' = ObjectSourceAfter(objectSource, c.input, c.format)
    /\ UNCHANGED phase
    /\ Untouched("calls")

NextCalls == NormalizeCall

SpecCalls == InitCalls /\ [][NextCalls]_vars

(***************************************************************************)
(* useAppState: addInput, removeInput, updateInputContent and renderGraphs.*)
(* A setState updater is applied to the state when it is queued.  An async *)
(* renderGraphs call runs to its next await without interruption; what was *)
(* suspended is kept in renders together with the inputs it captured.      *)
(***************************************************************************)
Contents == {"valid", "invalid", "throws"}

RECURSIVE WithoutId(_, _)
\* list.filter(e => e.id !== id)
WithoutId(list, id) ==
    IF list = <<>> THEN <<>>
    ELSE (IF Head(list).id = id THEN <<>> ELSE <<Head(list)>>) \o WithoutId(Tail(list), id)

IdsOf(list) == [i \in 1..Len(list) |-> list[i].id]

ValidCount(newGraphs) == Cardinality({i \in 1..Len(newGraphs) : newGraphs[i].isValid})

\* a suspended call: the captured inputs the loop has not finished with (the first is
\* the one being visualized), the graphs built so far and the await it is at
NoRender == [inputs |-> <<>>, newGraphs |-> <<>>, stage |-> "done"]

\* a final setState that stores the results and leaves isRendering as it is
FinishRenderKeepingFlag(r, st, isAvailable) ==
    [render |-> NoRender,
     state |-> [st EXCEPT !.graphs = r.newGraphs, !.diffAvailable = isAvailable]]

\* the final setState of renderGraphs
FinishRender(r, st, isAvailable) ==
    [render |-> NoRender,
     state |-> [st EXCEPT !.graphs = r.newGraphs, !.diffAvailable = isAvailable,
                          !.isRendering = FALSE]]

\* after the loop: the diff is awaited when at least two graphs are valid
AfterInputs(r, st) ==
    IF ValidCount(r.newGraphs) >= 2 THEN [render |-> [r EXCEPT !.stage = "diff"], state |-> st]
    ELSE FinishRender(r, st, FALSE)

\* the loop over the captured inputs up to the next await, to the end of the loop,
\* or to an exception, which the outer catch turns into isRendering = false
RECURSIVE ProcessInputs(_, _)
ProcessInputs(r, st) ==
    IF r.inputs = <<>> THEN AfterInputs(r, st)
    ELSE IF Head(r.inputs).content = "throws"
         THEN [render |-> NoRender, state |-> [st EXCEPT !.isRendering = FALSE]]
    ELSE IF Head(r.inputs).content = "invalid"
         THEN ProcessInputs([r EXCEPT !.inputs = Tail(@),
                                      !.newGraphs = Append(@, GraphResult(Head(r.inputs).id,
                                                                          FALSE))],
                            st)
    ELSE [render |-> [r EXCEPT !.stage = "visualize"], state |-> st]

\* the continuation after await visualize(...) settled for the first remaining input
AfterVisualize(r, st, resolved) ==
    ProcessInputs([r EXCEPT !.inputs = Tail(@),
                            !.newGraphs = Append(@, GraphResult(Head(r.inputs).id, resolved))],
                  st)

RemoveAt(list, k) == SubSeq(list, 1, k - 1) \o SubSeq(list, k + 1, Len(list))

\* what is left suspended after one of the calls ran on
Suspend(list, render) == IF render.stage = "done" THEN list ELSE Append(list, render)

InitApp ==
    /\ phase = "app"
    /\ state = InitialAppState
    /\ inputCounter = InitialInputCounter
    /\ renders = <<>>
    /\ Idle("app")

updateInputContent ==
    /\ phase = "app"
    /\ \E i \in 1..Len(state.inputs) : \E content \in Contents :
          state' = [state EXCEPT !.inputs[i] = LLMInput(@.id, content)]
    /\ UNCHANGED <<phase, inputCounter, renders>>
    /\ Untouched("app")

addInput ==
    /\ phase = "app"
    /\ inputCounter < MaxInputCounter
    /\ inputCounter' = inputCounter + 1
    /\ state' = [state EXCEPT !.inputs = Append(@, LLMInput(inputCounter + 1, "invalid")),
                              !.graphs = Append(@, GraphResult(inputCounter + 1, FALSE))]
    /\ UNCHANGED <<phase, renders>>
    /\ Untouched("app")

\* the updater of removeInput
RemoveInputFrom(prev, id) ==
    [prev EXCEPT !.inputs = WithoutId(@, id), !.graphs = WithoutId(@, id)]

\* a tab has its close control only while there is more than one editor tab
removeInput ==
    /\ phase = "app"
    /\ Len(state.inputs) > 1
    /\ \E i \in 1..Len(state.inputs) : state' = RemoveInputFrom(state, state.inputs[i].id)
    /\ UNCHANGED <<phase, inputCounter, renders>>
    /\ Untouched("app")

\* the call of renderGraphs up to its first await or to its end; the Render button
\* that calls it is disabled while isRendering
renderGraphs ==
    /\ phase = "app"
    /\ ~state.isRendering
    /\ state' = ProcessInputs([inputs |-> state.inputs, newGraphs |-> <<>>, stage |-> "run"],
                              [state EXCEPT !.isRendering = TRUE]).state
    /\ renders' = Suspend(renders,
                          ProcessInputs([inputs |-> state.inputs, newGraphs |-> <<>>,
                                         stage |-> "run"],
                                        [state EXCEPT !.isRendering = TRUE]).render)
    /\ UNCHANGED <<phase, inputCounter>>
    /\ Untouched("app")

\* the promise of visualize settles and the call runs on
visualizeSettled ==
    /\ phase = "app"
    /\ \E k \in 1..Len(renders) : \E resolved \in BOOLEAN :
          /\ renders[k].stage = "visualize"
          /\ state' = AfterVisualize(renders[k], state, resolved).state
          /\ renders' = Suspend(RemoveAt(renders, k),
                                AfterVisualize(renders[k], state, resolved).render)
    /\ UNCHANGED <<phase, inputCounter>>
    /\ Untouched("app")

\* the promise of computeAndRenderDiff settles and the call ends
computeAndRenderDiffSettled ==
    /\ phase = "app"
    /\ \E k \in 1..Len(renders) : \E resolved \in BOOLEAN :
          /\ renders[k].stage = "diff"
          /\ state' = FinishRender(renders[k], state, resolved).state
          /\ renders' = RemoveAt(renders, k)
    /\ UNCHANGED <<phase, inputCounter>>
    /\ Untouched("app")

NextApp ==
    \/ updateInputContent
    \/ addInput
    \/ removeInput
    \/ renderGraphs
    \/ visualizeSettled
    \/ computeAndRenderDiffSettled

SpecApp == InitApp /\ [][NextApp]_vars

(***************************************************************************)
(* renderGraphs under the assumption that the renderer promises settle.    *)
(* The tabs hold any contents when the call is made; a content edit during *)
(* a call does not reach the inputs the call captured, so edits are taken  *)
(* to have happened before the first call.                                 *)
(***************************************************************************)
InitAppEdited ==
    /\ phase = "app"
    /\ \E c1, c2 \in Contents :
          state = [InitialAppState EXCEPT !.inputs = <<LLMInput(1, c1), LLMInput(2, c2)>>]
    /\ inputCounter = InitialInputCounter
    /\ renders = <<>>
    /\ Idle("app")

NextAppLive ==
    \/ addInput
    \/ removeInput
    \/ renderGraphs
    \/ visualizeSettled
    \/ computeAndRenderDiffSettled

\* a suspended call is eventually resumed
SpecAppLive ==
    /\ InitAppEdited
    /\ [][NextAppLive]_vars
    /\ WF_vars(visualizeSettled)
    /\ WF_vars(computeAndRenderDiffSettled)

(***************************************************************************)
(* Claims about the validator                                              *)
(***************************************************************************)
Validated == phase = "validated"

RuleIdsWriting(graph, x) ==
    {i \in 1..Len(graph.rules) : x \in SeqToSet(graph.rules[i].v.outputs)}

WrittenIds(graph) == UNION {SeqToSet(graph.rules[i].v.outputs) : i \in 1..Len(graph.rules)}

HasDuplicateWriter(graph) ==
    \E x \in WrittenIds(graph) : Cardinality(RuleIdsWriting(graph, x)) >= 2

\* C1: every graph for which validation returns success has at most one rule
\* writing any given parameter (two rules listing the same parameter among
\* their outputs make validation fail).
C1_SingleWriterEnforced ==
    (Validated /\ vResult.success) => ~HasDuplicateWriter(vGraph)

\* The induced bipartite edge set: parameter -> rule for each input, rule ->
\* parameter for each output, over tagged nodes.
InducedEdges(graph) ==
    UNION {
        {<<<<"P", graph.rules[i].v.inputs[j]>>, <<"R", graph.rules[i].v.id>>>> :
            j \in 1..Len(graph.rules[i].v.inputs)}
        \cup
        {<<<<"R", graph.rules[i].v.id>>, <<"P", graph.rules[i].v.outputs[j]>>>> :
            j \in 1..Len(graph.rules[i].v.outputs)}
        : i \in 1..Len(graph.rules)}

RECURSIVE ReachableFrom(_, _)
ReachableFrom(edges, seen) ==
    LET next == seen \cup {e[2] : e \in {d \in edges : d[1] \in seen}}
    IN IF next = seen THEN seen ELSE ReachableFrom(edges, next)

HasDirectedCycle(graph) ==
    LET edges == InducedEdges(graph)
    IN \E e \in edges : e[1] \in ReachableFrom(edges, {e[2]})

CycleErrors(result) == ErrorsOfType(result.errors, "CYCLE_DETECTED")

\* C2: validation reports CycleDetected exactly when the induced bipartite
\* edge set has a directed cycle; then the result is a failure and carries
\* exactly one CycleDetected error.
C2_CycleDetectionExact ==
    Validated =>
        /\ (CycleErrors(vResult) # {}) <=> HasDirectedCycle(vGraph)
        /\ HasDirectedCycle(vGraph) =>
              /\ ~vResult.success
              /\ vResult.value = Undefined
              /\ Cardinality(CycleErrors(vResult)) = 1

\* a validated graph with two disjoint cycles, reported once
C2_Witness ==
    /\ Validated
    /\ \E i, j \in 1..Len(vGraph.rules) :
          /\ i # j
          /\ SeqToSet(vGraph.rules[i].v.inputs) \cap SeqToSet(vGraph.rules[i].v.outputs) # {}
          /\ SeqToSet(vGraph.rules[j].v.inputs) \cap SeqToSet(vGraph.rules[j].v.outputs) # {}
          /\ SeqToSet(vGraph.rules[i].v.inputs) \cap SeqToSet(vGraph.rules[j].v.inputs) = {}
    /\ Len(vGraph.parameters) = 2
    /\ Cardinality(CycleErrors(vResult)) = 1

AliasedIds(graph) == SeqToSet(Keys(graph.rules)) \cap SeqToSet(Keys(graph.parameters))

\* C10: a graph in which a rule id equals a declared parameter id fails
\* validation with a BipartiteViolation error, referenced or not.
C10_AliasDetected ==
    Validated =>
        (AliasedIds(vGraph) # {} =>
            /\ ~vResult.success
            /\ ErrorsOfType(vResult.errors, "BIPARTITE_VIOLATION") # {})

\* the occurrences <<rule index, side, position>> of ids in inputs and outputs lists
RefOccurrences(graph) ==
    {<<j, "input", i>> : j \in 1..Len(graph.rules), i \in 1..MaxRefs} \cup
    {<<j, "output", i>> : j \in 1..Len(graph.rules), i \in 1..MaxRefs}

RefList(graph, occ) ==
    IF occ[2] = "input" THEN graph.rules[occ[1]].v.inputs ELSE graph.rules[occ[1]].v.outputs

Occurs(graph, occ) == occ[3] <= Len(RefList(graph, occ))

UndeclaredOccurrences(graph) ==
    {occ \in RefOccurrences(graph) :
        Occurs(graph, occ) /\ RefList(graph, occ)[occ[3]] \notin SeqToSet(Keys(graph.parameters))}

RuleNamingOccurrences(graph) ==
    {occ \in RefOccurrences(graph) :
        Occurs(graph, occ) /\ RefList(graph, occ)[occ[3]] \in SeqToSet(Keys(graph.rules))}

RulesWithoutOutputs(graph) == {j \in 1..Len(graph.rules) : graph.rules[j].v.outputs = <<>>}

\* C11: the checks are accumulated: the result of validateCanonicalGraph holds one
\* UndeclaredParameter error per input/output occurrence that is not a declared
\* parameter, one BipartiteViolation per occurrence that names a rule, one
\* RuleNoOutputs per rule with empty outputs, and a CycleDetected error when a
\* cycle exists, whichever other checks failed.
C11_ChecksAccumulated ==
    Validated =>
        /\ Cardinality(ErrorsOfType(vResult.errors, "UNDECLARED_PARAMETER"))
              = Cardinality(UndeclaredOccurrences(vGraph))
        /\ Cardinality(ErrorsOfType(vResult.errors, "BIPARTITE_VIOLATION"))
              = Cardinality(RuleNamingOccurrences(vGraph))
        /\ Cardinality(ErrorsOfType(vResult.errors, "RULE_NO_OUTPUTS"))
              = Cardinality(RulesWithoutOutputs(vGraph))
        /\ (CycleErrors(vResult) # {}) <=> HasDirectedCycle(vGraph)

\* C12: validateCanonicalGraph never alters its argument: the graph is the same
\* after the call as before it, a success carries that very graph, and a failure
\* carries only a non-empty error list.
C12_ArgumentUnchanged ==
    [][Validate =>
        /\ vGraph' = vGraph
        /\ vResult'.success => (vResult'.value = vGraph /\ vResult'.errors = <<>>)
        /\ ~vResult'.success => (vResult'.value = Undefined /\ Len(vResult'.errors) > 0)]_vars

C12_Witness ==
    /\ Validated
    /\ vResult.success
    /\ Len(vGraph.rules) = 2
    /\ Len(vGraph.parameters) = 2
    /\ vResult.value = vGraph

\* the reported path with its nodes tagged in alternation, the first one as first
OtherKind(kind) == IF kind = "P" THEN "R" ELSE "P"
TaggedPath(path, first) ==
    [i \in 1..Len(path) |-> <<IF i % 2 = 1 THEN first ELSE OtherKind(first), path[i]>>]

\* a walk of the induced graph that ends in a node it already holds
ClosedWalk(tagged, graph) ==
    /\ Len(tagged) >= 2
    /\ \A i \in 1..(Len(tagged) - 1) : <<tagged[i], tagged[i + 1]>> \in InducedEdges(graph)
    /\ \E i \in 1..(Len(tagged) - 1) : tagged[i] = tagged[Len(tagged)]

CyclePathIsClosedWalk(path, graph) ==
    \E first \in {"P", "R"} : ClosedWalk(TaggedPath(path, first), graph)

\* C27: whenever validation reports CycleDetected, the path carried by the error
\* is a walk of the induced bipartite graph whose last node also occurs earlier
\* in the path, so the suffix from that occurrence is a genuine cycle; the path
\* may start with nodes that precede the cycle.
C27_CyclePathIsWalk ==
    Validated =>
        \A i \in CycleErrors(vResult) : CyclePathIsClosedWalk(vResult.errors[i].cycle, vGraph)

\* a reported path that enters the cycle two nodes after its start
C27_Witness ==
    /\ Validated
    /\ \E i \in CycleErrors(vResult) :
          /\ CyclePathIsClosedWalk(vResult.errors[i].cycle, vGraph)
          /\ Len(vResult.errors[i].cycle) = 5
          /\ vResult.errors[i].cycle[1] # vResult.errors[i].cycle[5]
          /\ vResult.errors[i].cycle[3] = vResult.errors[i].cycle[5]

(***************************************************************************)
(* Claims about the diff engine                                            *)
(***************************************************************************)
Diffed == phase = "diffed"
DiffReturned == Diffed /\ dResult.kind = "return"
NumSources == Len(dGraphs)

\* the sources whose graph declares parameter id
Declaring(id) == {j \in 1..NumSources : Has(dGraphs[j].graph.parameters, id)}
LabelsOf(js) == {dGraphs[j].label : j \in js}

DeclaredIds == UNION {SeqToSet(Keys(dGraphs[j].graph.parameters)) : j \in 1..NumSources}

MetricsConsistent(m, entities) ==
    /\ m.total = m.common + m.partial + m.unique
    /\ m.total = Len(entities)

\* C4: in every DiffResult, for parameters, rules and edges,
\* total = common + partial + unique and total is the number of unified
\* entities of the category in the diff graph.
C4_MetricsInvariant ==
    DiffReturned =>
        /\ MetricsConsistent(dResult.value.metrics.parameters, dResult.value.diffGraph.parameters)
        /\ MetricsConsistent(dResult.value.metrics.rules, dResult.value.diffGraph.rules)
        /\ MetricsConsistent(dResult.value.metrics.edges, dResult.value.diffGraph.edges)
        /\ dResult.value.metrics.parameters.total = Cardinality(DeclaredIds)

\* a diff whose metrics count entities of more than one status
C4_Witness ==
    /\ DiffReturned
    /\ dResult.value.metrics.parameters.partial > 0
    /\ dResult.value.metrics.parameters.common > 0
    /\ dResult.value.metrics.rules.unique > 0
    /\ dResult.value.metrics.rules.partial > 0
    /\ dResult.value.metrics.edges.total > dResult.value.metrics.edges.unique

SameRuleIdentity(r1, r2) ==
    /\ r1.id = r2.id
    /\ SeqToSet(r1.inputs) = SeqToSet(r2.inputs)
    /\ SeqToSet(r1.outputs) = SeqToSet(r2.outputs)
    /\ r1.logic = r2.logic

\* the rule r1 of source i and the rule r2 of source j ended in one diff rule:
\* an entry that carries r1's fields and is present in both sources, while
\* no other entry of source j carries r2's id (a graph has one rule per id)
UnifiedInto(i, r1, j, r2) ==
    \E e \in 1..Len(dResult.value.diffGraph.rules) :
        LET d == dResult.value.diffGraph.rules[e].v
        IN /\ d.id = r1.id /\ d.id = r2.id
           /\ {dGraphs[i].label, dGraphs[j].label} \subseteq SeqToSet(d.presence.presentIn)

\* C5: two rules of different sources are one diff rule iff their ids are
\* equal, their input sets are equal, their output sets are equal and their
\* logic texts are equal.
C5_RuleUnification ==
    DiffReturned =>
        \A i, j \in 1..NumSources :
            i # j =>
                \A a \in 1..Len(dGraphs[i].graph.rules), b \in 1..Len(dGraphs[j].graph.rules) :
                    LET r1 == dGraphs[i].graph.rules[a].v
                        r2 == dGraphs[j].graph.rules[b].v
                    IN UnifiedInto(i, r1, j, r2) <=> SameRuleIdentity(r1, r2)

\* C6: computeDiff with fewer than 2 graphs returns a ValidationError value
\* and raises no exception.
C6_TooFewSourcesReturned ==
    (Diffed /\ NumSources < 2) =>
        /\ dResult.kind = "return"
        /\ ~dResult.value.success
        /\ ErrorsOfType(dResult.value.errors, "VALIDATION_ERROR") # {}

StatusColor == [common |-> "black", partial |-> "orange", unique |-> "red"]
StatusEdgeStyle == [common |-> "solid", partial |-> "dashed", unique |-> "bold"]

\* the visual node was built from the diff entity (a parameter or a rule)
NodeFollowsStatus(node, entity) ==
    /\ node.color = StatusColor[entity.status]
    /\ node.agreementStatus = entity.status

EdgeFollowsStatus(edge, diffEdge) ==
    /\ edge.from = diffEdge.from /\ edge.to = diffEdge.to
    /\ edge.style = StatusEdgeStyle[diffEdge.status]
    /\ edge.color = StatusColor[diffEdge.status]
    /\ edge.agreementStatus = diffEdge.status

VisualFollowsStatus(visual, parameters, rules, edges) ==
    /\ Len(visual.nodes) = Len(parameters) + Len(rules)
    /\ \A i \in 1..Len(parameters) :
          visual.nodes[i].id = parameters[i].id /\ NodeFollowsStatus(visual.nodes[i], parameters[i])
    /\ \A i \in 1..Len(rules) :
          /\ visual.nodes[Len(parameters) + i].id = rules[i].visualId
          /\ NodeFollowsStatus(visual.nodes[Len(parameters) + i], rules[i])
    /\ Len(visual.edges) = Len(edges)
    /\ \A i \in 1..Len(edges) : EdgeFollowsStatus(visual.edges[i], edges[i])

\* C19: in the visual projection of every diff result the style and color of each
\* edge and the color of each node follow from the status alone by the mapping
\* common -> solid/black, partial -> dashed/orange, unique -> bold/red, and the
\* agreementStatus of a visual element is the status of the entity it was built from.
C19_VisualFollowsStatus ==
    DiffReturned =>
        VisualFollowsStatus(dResult.value.visualGraph,
                            Values(dResult.value.diffGraph.parameters),
                            Values(dResult.value.diffGraph.rules),
                            dResult.value.diffGraph.edges)

C19_Witness ==
    /\ DiffReturned
    /\ \E e2, e3 \in SeqToSet(dResult.value.visualGraph.edges) :
          /\ e2.agreementStatus = "partial" /\ e2.style = "dashed" /\ e2.color = "orange"
          /\ e3.agreementStatus = "unique" /\ e3.style = "bold" /\ e3.color = "red"
    /\ \E n1, n2, n3 \in SeqToSet(dResult.value.visualGraph.nodes) :
          /\ n1.shape = "box" /\ n1.agreementStatus = "unique" /\ n1.color = "red"
          /\ n2.shape = "ellipse" /\ n2.agreementStatus = "partial" /\ n2.color = "orange"
          /\ n3.shape = "ellipse" /\ n3.agreementStatus = "common" /\ n3.color = "black"

\* the diff parameter d carries the fields of a declaration of one of its sources
CopiesParameter(d, graphs) ==
    \E j \in 1..Len(graphs) :
        /\ graphs[j].label \in SeqToSet(d.presence.presentIn)
        /\ Has(graphs[j].graph.parameters, d.id)
        /\ Get(graphs[j].graph.parameters, d.id).id = d.id
        /\ Get(graphs[j].graph.parameters, d.id).type = d.type
        /\ Get(graphs[j].graph.parameters, d.id).source = d.source

\* the diff rule d carries the fields of a rule of one of its sources
CopiesRule(d, graphs) ==
    \E j \in 1..Len(graphs) :
        /\ graphs[j].label \in SeqToSet(d.presence.presentIn)
        /\ \E r \in SeqToSet(Values(graphs[j].graph.rules)) :
              r = CanonicalRule(d.id, d.inputs, d.outputs, d.logic)

\* no entity of the given graphs carries a presence or status annotation
NotAnnotated(graphs) ==
    \A j \in 1..Len(graphs) :
        /\ \A q \in SeqToSet(Values(graphs[j].graph.parameters)) :
               DOMAIN q = {"id", "type", "source"}
        /\ \A r \in SeqToSet(Values(graphs[j].graph.rules)) :
               DOMAIN r = {"id", "inputs", "outputs", "logic"}

\* C23: computeDiff does not modify the graphs it is given: every input graph's
\* parameters and rules are the same after the call as before it, the diff
\* entities are built from unaltered copies of them, and the presence/status
\* annotations exist only on the newly built diff entities.
C23_InputGraphsUnchanged ==
    [][ComputeDiff =>
          /\ dGraphs' = dGraphs
          /\ NotAnnotated(dGraphs')
          /\ dResult'.kind = "return" =>
                 /\ \A d \in SeqToSet(Values(dResult'.value.diffGraph.parameters)) :
                        CopiesParameter(d, dGraphs) /\ {"presence", "status"} \subseteq DOMAIN d
                 /\ \A d \in SeqToSet(Values(dResult'.value.diffGraph.rules)) :
                        CopiesRule(d, dGraphs) /\ {"presence", "status"} \subseteq DOMAIN d]_vars

\* a diff of three sources that disagree on a parameter and on a rule
C23_Witness ==
    /\ DiffReturned
    /\ NumSources = 3
    /\ NotAnnotated(dGraphs)
    /\ \E d \in SeqToSet(Values(dResult.value.diffGraph.parameters)) :
          d.status = "partial" /\ d.source = "input" /\ CopiesParameter(d, dGraphs)
    /\ \E d \in SeqToSet(Values(dResult.value.diffGraph.rules)) :
          d.status = "unique" /\ d.inputs = <<A, A>> /\ CopiesRule(d, dGraphs)

DiffRuleVisualIds == [i \in 1..Len(dResult.value.diffGraph.rules) |->
                          dResult.value.diffGraph.rules[i].v.visualId]

\* the edges of the sources: endpoint kind, parameter id and unified rule key
SourceEdges ==
    UNION {UNION {{<<"input", r.inputs[i], ruleKey(r)>> : i \in 1..Len(r.inputs)}
                  \cup {<<"output", r.outputs[i], ruleKey(r)>> : i \in 1..Len(r.outputs)}
                  : r \in SeqToSet(Values(dGraphs[j].graph.rules))}
           : j \in 1..NumSources}

\* C24: the synthetic identifier of a unified rule is distinct from the identifier
\* of every other unified rule and from every unified parameter id, no two nodes
\* of the diff visual graph share an id, and two different (endpoint kind, from,
\* to) edges are never accumulated into the same unified edge.
C24_SyntheticIdsDistinct ==
    DiffReturned =>
        /\ \A i, j \in 1..Len(DiffRuleVisualIds) :
               i # j => DiffRuleVisualIds[i] # DiffRuleVisualIds[j]
        /\ SeqToSet(DiffRuleVisualIds) \cap SeqToSet(Keys(dResult.value.diffGraph.parameters)) = {}
        /\ \A i, j \in 1..Len(dResult.value.visualGraph.nodes) :
               i # j => dResult.value.visualGraph.nodes[i].id # dResult.value.visualGraph.nodes[j].id
        /\ Len(dResult.value.diffGraph.edges) = Cardinality(SourceEdges)

\* the unified rules whose synthetic identifier is an endpoint of the edge
EndpointRules(edge) ==
    {d \in SeqToSet(Values(dResult.value.diffGraph.rules)) :
        d.visualId = edge.from \/ d.visualId = edge.to}

\* C28: in every diff result each unified edge has exactly the presentIn set, and
\* so the status, of the unified rule whose synthetic identifier is its endpoint:
\* an edge is never present in a source in which its rule is absent, nor absent
\* from a source in which its rule is present.
C28_EdgePresenceFollowsRule ==
    DiffReturned =>
        \A e \in SeqToSet(dResult.value.diffGraph.edges) :
            /\ EndpointRules(e) # {}
            /\ \A d \in EndpointRules(e) :
                   /\ SeqToSet(e.presence.presentIn) = SeqToSet(d.presence.presentIn)
                   /\ e.status = d.status

\* the classification of the unified parameters: id, presentIn set and status
ParameterClasses(diffGraph) ==
    {<<d.id, SeqToSet(d.presence.presentIn), d.status>> :
        d \in SeqToSet(Values(diffGraph.parameters))}

\* the classification of the unified rules, each named by its rule key
RuleClasses(diffGraph) ==
    {<<e.k, SeqToSet(e.v.presence.presentIn), e.v.status>> : e \in SeqToSet(diffGraph.rules)}

\* an edge endpoint named independently of the rule counter: the key of the rule
\* that has the endpoint as synthetic identifier, or else the parameter id
EndpointName(diffGraph, node) ==
    IF \E e \in SeqToSet(diffGraph.rules) : e.v.visualId = node
    THEN <<"rule", (CHOOSE e \in SeqToSet(diffGraph.rules) : e.v.visualId = node).k>>
    ELSE <<"parameter", node>>

EdgeClasses(diffGraph) ==
    {<<EndpointName(diffGraph, e.from), EndpointName(diffGraph, e.to),
       SeqToSet(e.presence.presentIn), e.status>> : e \in SeqToSet(diffGraph.edges)}

SameClassification(one, other) ==
    /\ one.metrics = other.metrics
    /\ ParameterClasses(one.diffGraph) = ParameterClasses(other.diffGraph)
    /\ RuleClasses(one.diffGraph) = RuleClasses(other.diffGraph)
    /\ EdgeClasses(one.diffGraph) = EdgeClasses(other.diffGraph)

Permuted(list, perm) == [i \in 1..Len(list) |-> list[perm[i]]]

\* C29: the diff classification does not depend on the order of the sources: for
\* every list of N >= 2 labeled graphs and every permutation of it, computeDiff
\* yields the same metrics and, for every unified parameter, rule and edge, the
\* same presentIn set and the same status.
C29_OrderIndependent ==
    DiffReturned =>
        \A perm \in Permutations(1..NumSources) :
            SameClassification(dResult.value, computeDiff(Permuted(dGraphs, perm)).value)

(***************************************************************************)
(* Claims about the format normalizers                                     *)
(***************************************************************************)
Normalized == phase = "normalized"
NormalizeReturned == Normalized /\ nResult.kind = "return"
NormalizeSucceeded == NormalizeReturned /\ nResult.value.success

\* C7: normalize is total and never throws: for every input text and every
\* format, whatever the shape of the inner entries of the document, the call
\* returns a Result that is a success or a failure with a non-empty error list.
C7_NormalizeNeverThrows ==
    Normalized =>
        /\ nResult.kind = "return"
        /\ nResult.value.success \/ Len(nResult.value.errors) > 0

WrittenBySomeRule(graph, id) ==
    \E j \in 1..Len(graph.rules) : id \in SeqToSet(graph.rules[j].v.outputs)

\* C8: in every canonical graph returned as success by a format normalizer, a
\* parameter has source = derived if and only if some rule of that same graph
\* lists it among its outputs, and source = input otherwise.
C8_DerivedIffWritten ==
    NormalizeSucceeded =>
        \A i \in 1..Len(nResult.value.value.parameters) :
            (nResult.value.value.parameters[i].v.source = "derived")
                <=> WrittenBySomeRule(nResult.value.value,
                                      nResult.value.value.parameters[i].v.id)

\* the number of computed_by entries of a Format D document
RECURSIVE ComputedByCount(_)
ComputedByCount(entries) ==
    IF entries = <<>> THEN 0
    ELSE (IF HasComputation(Head(entries).v)
          THEN Len(Field(Head(entries).v, KeyComputedBy).arr) ELSE 0)
         + ComputedByCount(Tail(entries))

\* C9: for every Format D document that normalizes successfully, each
\* computed_by entry becomes its own rule with exactly one output: the graph
\* has as many rules as the document has computed_by entries, so no two
\* entries receive the same synthesized rule id.
C9_OneRulePerComputedBy ==
    (NormalizeSucceeded /\ nFormat = "D") =>
        /\ Len(nResult.value.value.rules) = ComputedByCount(Entries(nDoc))
        /\ \A j \in 1..Len(nResult.value.value.rules) :
              Len(nResult.value.value.rules[j].v.outputs) = 1

\* the declarations {name, type} of a Format C document that have a valid name and
\* a valid type, by normalized name
BlockDeclarations(block) ==
    IF ~IsObj(block) THEN {}
    ELSE {[name |-> normalizeId(item.obj[1].v.str), type |-> item.obj[2].v.str] :
             item \in {d \in SeqToSet(Items(Field(block, KeyInputParameters)))
                              \cup SeqToSet(Items(Field(block, KeyOutputParameters))) :
                          /\ IsObj(d)
                          /\ Len(d.obj) = 2
                          /\ d.obj[1].k = KeyName /\ IsStr(d.obj[1].v)
                          /\ isValidId(d.obj[1].v.str)
                          /\ d.obj[2].k = KeyType /\ d.obj[2].v \in ValidTypes}}

DeclarationsC(doc) == UNION {BlockDeclarations(doc.arr[i]) : i \in 1..Len(doc.arr)}

HasTypeConflict(doc) ==
    \E d1, d2 \in DeclarationsC(doc) : d1.name = d2.name /\ d1.type # d2.type

ConflictingTypeReported ==
    /\ NormalizeReturned
    /\ ~nResult.value.success
    /\ ErrorsOfType(nResult.value.errors, "CONFLICTING_TYPE") # {}

\* C16: Format C normalization fails with a ConflictingType error whenever a parameter
\* name declared with a valid type is declared again, in the same or another block, as
\* input or output, with a different valid type, and reports no ConflictingType error
\* when all declarations of each normalized name carry the same type.
C16_ConflictingTypeExact ==
    (Normalized /\ nFormat = "C" /\ IsArr(nDoc)) =>
        (HasTypeConflict(nDoc) <=> ConflictingTypeReported)

\* the registry of a Format A or B document: the normalized names declared with a
\* valid type
RegistryIds(doc) ==
    {normalizeId(e.k) : e \in {d \in SeqToSet(Entries(Field(doc, KeyParameters))) :
                                   isValidId(d.k) /\ Field(d.v, KeyType) \in ValidTypes}}

StepLogic(step) ==
    IF IsObj(step) /\ IsStr(Field(step, KeyLogic)) THEN Field(step, KeyLogic).str ELSE <<>>

\* the registry parameters the logic of a step reads and writes
StepReads(doc, step) ==
    {normalizeId(id) : id \in SeqToSet(analyzeLogic(StepLogic(step)).inputs)}
        \cap RegistryIds(doc)
StepWrites(doc, step) ==
    {normalizeId(id) : id \in SeqToSet(analyzeLogic(StepLogic(step)).outputs)}
        \cap RegistryIds(doc)

\* step i reads id, some step writes id, and every step that writes it comes after i
ReadsBeforeWritten(doc, i, id) ==
    /\ id \in StepReads(doc, doc.obj[2].v.arr[i])
    /\ \E j \in 1..Len(doc.obj[2].v.arr) : id \in StepWrites(doc, doc.obj[2].v.arr[j])
    /\ \A j \in 1..Len(doc.obj[2].v.arr) :
          id \in StepWrites(doc, doc.obj[2].v.arr[j]) => j > i

ViolatesPipelineOrder(doc) ==
    \E i \in 1..Len(doc.obj[2].v.arr) : \E id \in RegistryIds(doc) :
        ReadsBeforeWritten(doc, i, id)

\* C17: Format B respects pipeline order: a document in which the logic of some step
\* reads a registry parameter that only later steps write is rejected.
C17_PipelineOrderEnforced ==
    (Normalized /\ nFormat = "B" /\ nDoc \in DocumentsB /\ ViolatesPipelineOrder(nDoc)) =>
        (NormalizeReturned /\ ~nResult.value.success)

\* the names a rule entry of a Format A document lists as outputs, normalized
RuleOutputIds(rule) ==
    IF IsObj(rule) /\ IsArr(Field(rule, KeyOutputs))
    THEN {normalizeId(o.str) : o \in {v \in SeqToSet(Field(rule, KeyOutputs).arr) : IsStr(v)}}
    ELSE {}

\* the rule entries of the document that list id as an output
WritersOf(doc, id) ==
    {j \in 1..Len(Field(doc, KeyRules).arr) : id \in RuleOutputIds(Field(doc, KeyRules).arr[j])}

DuplicateOutputErrors(result) ==
    IF result.kind = "return" /\ ~result.value.success
    THEN {result.value.errors[i].parameter :
             i \in ErrorsOfType(result.value.errors, "DUPLICATE_OUTPUT")}
    ELSE {}

\* C18: Format A normalization reports a DuplicateOutput error, and fails, exactly
\* when some declared parameter is listed as an output by more than one rule; a
\* parameter written by a single rule never causes a DuplicateOutput error.
C18_DuplicateOutputExact ==
    (Normalized /\ nFormat = "A" /\ nDoc \in DocumentsA) =>
        /\ (\E id \in RegistryIds(nDoc) : Cardinality(WritersOf(nDoc, id)) > 1)
               <=> DuplicateOutputErrors(nResult) # {}
        /\ \A id \in DuplicateOutputErrors(nResult) : Cardinality(WritersOf(nDoc, id)) > 1

NormalizedId == phase = "normalizedId"

\* C13: normalizeId is idempotent, normalizeId(normalizeId(x)) = normalizeId(x) for
\* every string x, and isValidId(x) holds exactly when normalizeId(x) is non-empty.
C13_NormalizeIdIdempotent ==
    NormalizedId =>
        /\ idResult.twice = idResult.once
        /\ idResult.valid <=> idResult.once # <<>>

C13_Witness ==
    /\ NormalizedId
    /\ idArg = <<" ", "B", "-", "a">>
    /\ idResult.once = <<"b", "_", "a">>
    /\ idResult.valid

AnalyzedLogic == phase = "analyzedLogic"

Quotes == {DoubleQuote, SingleQuote, Backtick}

\* the text with every string literal emptied, read from left to right: a quote opens
\* a literal that runs to the next unescaped quote of the same kind; a quote that is
\* never closed is an ordinary character
RECURSIVE OutsideLiterals(_)
OutsideLiterals(str) ==
    IF str = <<>> THEN <<>>
    ELSE IF Head(str) \in Quotes /\ LiteralEnd(str, 2, Head(str)) > 0
         THEN <<Head(str), Head(str)>>
              \o OutsideLiterals(SubSeq(str, LiteralEnd(str, 2, Head(str)) + 1, Len(str)))
    ELSE <<Head(str)>> \o OutsideLiterals(Tail(str))

\* text[i..j] is a whole identifier
IdentifierOccurrence(text, i, j) ==
    /\ i <= j
    /\ text[i] \in IdentifierStartChars
    /\ \A k \in i..j : text[k] \in WordChars
    /\ i = 1 \/ text[i - 1] \notin WordChars
    /\ j = Len(text) \/ text[j + 1] \notin WordChars

\* after optional whitespace, position j + 1 onwards starts with a single "="
FollowedBySingleEquals(text, j) ==
    \E k \in (j + 1)..Len(text) :
        /\ \A m \in (j + 1)..(k - 1) : text[m] \in Whitespace
        /\ text[k] = "="
        /\ k = Len(text) \/ text[k + 1] # "="

Reserved == JS_KEYWORDS \cup BUILTINS

IdentifiersOf(text) ==
    {SubSeq(text, i, j) : i \in 1..Len(text), j \in 1..Len(text)}
        \cap {SubSeq(text, o[1], o[2]) :
                o \in {p \in (1..Len(text)) \X (1..Len(text)) :
                           IdentifierOccurrence(text, p[1], p[2])}}

AssignedIdentifiersOf(text) ==
    {SubSeq(text, o[1], o[2]) :
        o \in {p \in (1..Len(text)) \X (1..Len(text)) :
                   IdentifierOccurrence(text, p[1], p[2])
                   /\ FollowedBySingleEquals(text, p[2])}}

ExpectedOutputs(logic) == AssignedIdentifiersOf(OutsideLiterals(logic)) \ Reserved
ExpectedInputs(logic) ==
    (IdentifiersOf(OutsideLiterals(logic)) \ Reserved) \ ExpectedOutputs(logic)

LogicExample == <<"x", " ", "=", " ", "a", " ", "+", " ", "b", ";">>

\* C15: analyzeLogic returns as outputs the non-reserved identifiers with an occurrence
\* directly followed, after optional whitespace, by a single "=", and as inputs all
\* other non-reserved identifiers outside string literals; inputs and outputs are
\* disjoint and "x = a + b;" gives outputs {x}, inputs {a, b}.
C15_AnalyzeLogicExact ==
    AnalyzedLogic =>
        /\ SeqToSet(logicResult.outputs) = ExpectedOutputs(logicArg)
        /\ SeqToSet(logicResult.inputs) = ExpectedInputs(logicArg)
        /\ SeqToSet(logicResult.inputs) \cap SeqToSet(logicResult.outputs) = {}
        /\ logicArg = LogicExample =>
               /\ logicResult.outputs = <<X>>
               /\ logicResult.inputs = <<<<"a">>, <<"b">>>>

\* the parsed document has the outer shape of the declared format
ShapeMatches(data, format) ==
    \/ format = "A" /\ isFormatA(data)
    \/ format = "B" /\ isFormatB(data)
    \/ format = "C" /\ isFormatC(data)
    \/ format = "D" /\ isFormatD(data)

\* the problems the normalizer of the declared format detected in the document
DetectedProblems(data, format) == LocalsAtExit(data, format).errors

\* C25: format normalizers accumulate errors and never emit a partial graph: when
\* the outer shape is usable every detected problem is in the returned error list
\* and a detected problem makes the result a failure carrying no graph; when the
\* outer shape does not match the declared format the result is a failure
\* carrying exactly one SchemaMismatch error.
C25_ErrorsAccumulated ==
    (Normalized /\ parseJson(nDoc).success) =>
        IF ShapeMatches(parseJson(nDoc).value, nFormat)
        THEN /\ nResult.kind = "return"
             /\ DetectedProblems(parseJson(nDoc).value, nFormat) # <<>> =>
                    /\ ~nResult.value.success
                    /\ nResult.value.errors = DetectedProblems(parseJson(nDoc).value, nFormat)
                    /\ nResult.value.value = Undefined
             /\ nResult.value.success =>
                    DetectedProblems(parseJson(nDoc).value, nFormat) = <<>>
        ELSE /\ nResult.kind = "return"
             /\ ~nResult.value.success
             /\ nResult.value.value = Undefined
             /\ Len(nResult.value.errors) = 1
             /\ nResult.value.errors[1].errorType = "SCHEMA_MISMATCH"

\* every id the rules of the graph read or write is a key of its parameters
ReferenceIntegrity(graph) ==
    \A r \in SeqToSet(Values(graph.rules)) :
        \A id \in SeqToSet(r.inputs) \cup SeqToSet(r.outputs) : Has(graph.parameters, id)

OutputCompleteness(graph) ==
    \A r \in SeqToSet(Values(graph.rules)) : Len(r.outputs) > 0

\* what the claim says of one result of normalize
WellFormedIfSuccess(result) ==
    (result.kind = "return" /\ result.value.success) =>
        /\ ReferenceIntegrity(result.value.value)
        /\ OutputCompleteness(result.value.value)
        /\ ErrorsOfType(validateCanonicalGraph(result.value.value).errors,
                        "UNDECLARED_PARAMETER") = {}
        /\ ErrorsOfType(validateCanonicalGraph(result.value.value).errors,
                        "RULE_NO_OUTPUTS") = {}

\* C26: every canonical graph a format normalizer returns as success has
\* reference integrity and output completeness, so validateCanonicalGraph
\* applied to it reports neither UndeclaredParameter nor RuleNoOutputs.
C26_NormalizedGraphWellFormed ==
    phase = "calls" => \A i \in 1..Len(calls) : WellFormedIfSuccess(calls[i].result)

(***************************************************************************)
(* Claims about the application state                                      *)
(***************************************************************************)
\* C20: editor tabs and visualization tabs stay in one-to-one correspondence:
\* after any interleaving of addInput, removeInput and renderGraphs, including
\* addInput or removeInput issued while a renderGraphs call is suspended, the
\* ids of the graphs list are exactly the ids of the inputs list.
C20_TabsCorrespond ==
    phase = "app" =>
        /\ Len(state.graphs) = Len(state.inputs)
        /\ SeqToSet(IdsOf(state.graphs)) = SeqToSet(IdsOf(state.inputs))

\* C21: in every reachable application state, an available diff implies that at
\* least two entries of the current graphs list are valid, also after a later
\* removeInput, addInput or content edit.
C21_DiffNeedsTwoValidGraphs ==
    phase = "app" => (state.diffAvailable => ValidCount(state.graphs) >= 2)

\* the inputs a renderGraphs call works on: those it captured when it was called
CapturedIds ==
    IF renders = <<>> THEN IdsOf(state.inputs)
    ELSE IdsOf(renders[1].newGraphs) \o IdsOf(renders[1].inputs)

\* the captured inputs the call has not processed yet
PendingInputs == IF renders = <<>> THEN state.inputs ELSE renders[1].inputs

\* a step with which a renderGraphs call ends
RenderCompletes ==
    /\ renderGraphs \/ visualizeSettled \/ computeAndRenderDiffSettled
    /\ renders' = <<>>

\* C22: an input that fails in whatever way does not prevent the other inputs
\* from being processed: when a render completes, every input it worked on has
\* its own graph result, the result of an input whose content fails is invalid,
\* and the diff is available only when at least two results are valid.
C22_PartialFailureTolerance ==
    [][RenderCompletes =>
          /\ IdsOf(state'.graphs) = CapturedIds
          /\ \A i \in 1..Len(PendingInputs) :
                 PendingInputs[i].content # "valid" =>
                     \A j \in 1..Len(state'.graphs) :
                         state'.graphs[j].id = PendingInputs[i].id =>
                             ~state'.graphs[j].isValid
          /\ state'.diffAvailable => ValidCount(state'.graphs) >= 2]_vars

\* C30: every renderGraphs invocation that sets isRendering to true eventually
\* sets it back to false on every path, provided each renderer promise
\* eventually settles; the Render button is never left permanently disabled.
C30_RenderingEnds == (phase = "app" /\ state.isRendering) ~> ~state.isRendering

\* a call that went through both awaits has ended
C30_Witness ==
    /\ phase = "app"
    /\ renders = <<>>
    /\ ~state.isRendering
    /\ state.diffAvailable
    /\ ValidCount(state.graphs) >= 2

====
